---- MODULE Spec2Model ----
(***************************************************************************)
(* The editor store of figma-editor (src/src/store/editorStore.ts): the    *)
(* live Project, the snapshot history with its cursor, the history         *)
(* debouncer, batches, the selection, and the part of the user interface   *)
(* that drives undo/redo (App.tsx, Toolbar.tsx, PropertiesPanel,           *)
(* Canvas.tsx).                                                            *)
(*                                                                         *)
(* A Project is abstracted to the inline style value of its one editable   *)
(* element (content), the path of its root page (rootHtmlPath) and the     *)
(* owner of its object structure (ref): JavaScript objects are references, *)
(* so a Project value that was not deep-copied still belongs to the holder *)
(* it was taken from.  Timestamps (Date.now()) are left out.               *)
(***************************************************************************)
EXTENDS Integers, Sequences, FiniteSets, TLC

VARIABLES
    currentProject,       \* EditorState.currentProject
    history,              \* EditorState.history
    historyIndex,         \* EditorState.historyIndex (0-based, -1 = none)
    isHistoryEnabled,     \* EditorState.isHistoryEnabled
    activeBatch,          \* EditorState.activeBatch
    batchCommands,        \* EditorState.batchCommands
    selectedElementId,    \* EditorState.selectedElementId
    selectedElementData,  \* EditorState.selectedElementData
    timeout,              \* createDebouncer: let timeout
    pendingAction,        \* createDebouncer: let pendingAction
    srcDoc,               \* Canvas: the srcDoc the preview iframe last loaded
    previewStyle,         \* Canvas: style value of the element in the live preview document
    lastOp,               \* history variable: the operation that led to this state
    batchBase,            \* history variable: the live Project when the open batch was started
    panelEdit,            \* history variable: progress of a properties-panel edit
    upload,               \* FileUpload.handleFile: the File being handled and how far it got
    extraction,           \* processZipFile: zipEntries still being read, files, rootHtmlPath
    exported,             \* ExportPanel.handleExport: the archive createZipFromProject produced
    document,             \* an HTML document handed to the utilities of fileUtils
    isLoading,            \* EditorState.isLoading
    error,                \* EditorState.error
    fileUpload,           \* FileUpload: uploadStatus, recentFile and the handleFile calls in flight
    exportPanel,          \* ExportPanel: status and errorMessage
    drag,                 \* Canvas: isDraggingRef, dragStartRef, the dragged element's offsets, snapGuides
    listeners             \* Canvas: listeners on the preview's nodes and handlersRef

fileVars == <<upload, extraction, exported, document>>

uiVars == <<isLoading, error, fileUpload, exportPanel, drag, listeners>>

vars == <<currentProject, history, historyIndex, isHistoryEnabled, activeBatch,
          batchCommands, selectedElementId, selectedElementData, timeout,
          pendingAction, srcDoc, previewStyle, lastOp, batchBase, panelEdit,
          upload, extraction, exported, document,
          isLoading, error, fileUpload, exportPanel, drag, listeners>>

----------------------------------------------------------------------------
(* Bounds of the model *)

MaxContent == 1
MaxHistory == 2

\* Longest archive (in entries that are read one by one) handed to an upload.
MaxEntries == 2
MaxCssFiles == 2
MaxElements == 3
MaxCounter == 2

\* Most handleFile calls that are awaiting processZipFile at one time.
MaxRuns == 2

\* Half of the largest width of an element in a drag, and the offset of the
\* edge that the claim's drag snaps to.
MaxHalfWidth == 6

\* Largest pointer coordinate of a gesture.
MaxPointer == 3

\* Largest left/top offset the dragged element is taken to.
MaxOffset == 4
SnapEdge == 50

\* Most runs of handleIframeLoad in one behaviour.
MaxAttach == 3

\* Most layer reorders in one behaviour.
MaxReorders == 2

(* Program constant: "if (newHistory.length > 50)" *)
HistoryLimit == 50

(* Program constants of the file utilities *)
MAX_FILE_SIZE == 52428800  \* 50 * 1024 * 1024
MAX_FILES_COUNT == 500

----------------------------------------------------------------------------
(* Values *)

Contents == 0..MaxContent
Pages == {"index.html", "about.html"}

NullProject == [content |-> -1, rootHtmlPath |-> "<null>", ref |-> "<null>"]
NoId == "<null>"
ElementIds == {"el-1"}
NoBatch == "<null>"
BatchLabels == {"Batch"}
Undefined == "<undefined>"
NullData == [id |-> NoId, style |-> -1]
NoSrc == [page |-> "<empty>", style |-> -1]

\* A Project handed to the store from outside (upload, local storage).
InputProjects == {[content |-> 0, rootHtmlPath |-> "index.html", ref |-> "live"]}

Max(a, b) == IF a >= b THEN a ELSE b
Min(a, b) == IF a <= b THEN a ELSE b

\* The content of a Project without the identity of its objects.
Value(p) == [content |-> p.content, rootHtmlPath |-> p.rootHtmlPath]

----------------------------------------------------------------------------
(* Object structure *)

\* JSON.parse(JSON.stringify(p)) without the copy: the same objects, still
\* owned by whoever held p.
SharedReference(p, owner) == p

\* JSON.parse(JSON.stringify(p)): a structure of new objects, reachable only
\* from the holder that receives it.
DeepCopy(p, owner) == [p EXCEPT !.ref = owner]

----------------------------------------------------------------------------
(* Debouncer (createDebouncer) *)

\* timeout: "null", "armed" (a timer is scheduled), "stale" (the handle of a
\* timer that has already fired).  pendingAction: <<>> (null) or <<label>>,
\* the closure () => get().saveToHistory(label).
TimerNull == "null"
TimerArmed == "armed"
TimerStale == "stale"
NoAction == <<>>

----------------------------------------------------------------------------
(* Canvas rendering *)

\* useMemo(() => buildHtmlDocument(currentProject)): the document string of
\* the root page ('' without a Project).
htmlContent(p) ==
    IF p = NullProject THEN NoSrc
    ELSE [page |-> p.rootHtmlPath, style |-> p.content]

\* <iframe srcDoc={htmlContent}>: the frame reloads only when the string
\* changes; a reload replaces the live document by the parsed string.
RenderedStyle(p) ==
    IF htmlContent(p) = srcDoc THEN previewStyle ELSE htmlContent(p).style

Render(p) ==
    /\ srcDoc' = htmlContent(p)
    /\ previewStyle' = RenderedStyle(p)

----------------------------------------------------------------------------
(* History Manager *)

EntryLabel(label) == IF label = Undefined THEN "Edit" ELSE label

\* saveToHistory without the truncation of the redo branch.
saveToHistoryKeepingRedo(h, i, enabled, proj, sel, label) ==
    IF ~enabled \/ proj = NullProject
    THEN [history |-> h, historyIndex |-> i, saved |-> FALSE]
    ELSE LET entry == [project |-> DeepCopy(proj, "history"),
                       selectedElementId |-> sel,
                       label |-> EntryLabel(label)]
             newHistory == Append(h, entry)
         IN [history |-> newHistory, historyIndex |-> Len(newHistory) - 1, saved |-> TRUE]

\* saveToHistory without the 50-entry limit.
saveToHistoryUnlimited(h, i, enabled, proj, sel, label) ==
    IF ~enabled \/ proj = NullProject
    THEN [history |-> h, historyIndex |-> i, saved |-> FALSE]
    ELSE LET entry == [project |-> DeepCopy(proj, "history"),
                       selectedElementId |-> sel,
                       label |-> EntryLabel(label)]
             newHistory == Append(SubSeq(h, 1, i + 1), entry)
         IN [history |-> newHistory, historyIndex |-> Len(newHistory) - 1, saved |-> TRUE]

\* saveToHistory(label) applied to history h with cursor i: the new history
\* and cursor, and whether an entry was appended.
saveToHistory(h, i, enabled, proj, sel, label) ==
    IF ~enabled \/ proj = NullProject
    THEN [history |-> h, historyIndex |-> i, saved |-> FALSE]
    ELSE LET entry == [project |-> DeepCopy(proj, "history"),
                       selectedElementId |-> sel,
                       label |-> EntryLabel(label)]
             newHistory == Append(SubSeq(h, 1, i + 1), entry)
             newIndex == Len(newHistory) - 1
         IN IF Len(newHistory) > HistoryLimit
            THEN [history |-> Tail(newHistory),
                  historyIndex |-> Max(0, newIndex - 1),
                  saved |-> TRUE]
            ELSE [history |-> newHistory, historyIndex |-> newIndex, saved |-> TRUE]

\* historyDebouncer.flush() in the current state: the pending action, when
\* there is one, is saveToHistory(its label).
flush ==
    IF pendingAction = NoAction
    THEN [history |-> history, historyIndex |-> historyIndex, saved |-> FALSE]
    ELSE saveToHistory(history, historyIndex, isHistoryEnabled, currentProject,
                       selectedElementId, pendingAction[1])

canUndo == isHistoryEnabled /\ historyIndex > 0
canRedo == isHistoryEnabled /\ historyIndex < Len(history) - 1

\* The entry under the cursor (history[historyIndex] of the source).
Current(h, i) == h[i + 1]

\* lastOp: the operation, whether a debounced commit was pending when it
\* began, and whether it appended an entry that replaced a redo branch.
Op(name, pending, cut) == [op |-> name, pending |-> pending, cut |-> cut]
Pending == pendingAction /= NoAction
Cut(r) == r.saved /\ historyIndex < Len(history) - 1
NoEdit == [phase |-> "none", prev |-> -1]
NoBase == [project |-> NullProject, clean |-> FALSE]

----------------------------------------------------------------------------
(* Files and documents (the file utilities, src/src/utils/colorUtils.ts    *)
(* from line 146 on).  A path is the sequence of its segments; the content *)
(* of a file is a sequence of tokens: the pieces of text the utilities     *)
(* search for, replace or rewrite, and opaque text in between.             *)

NoUpload == [stage |-> "idle"]
NoExtraction == [stage |-> "idle"]
NoArchive == <<>>
NoDocument == [stage |-> "idle"]

Text(n) == [t |-> "text", v |-> n]
NL == [t |-> "nl"]
HeadClose == [t |-> "</head>"]
InjectedOpen == [t |-> "<style data-injected=\"true\">"]
StyleOpen == [t |-> "<style>"]
StyleClose == [t |-> "</style>"]

Doctype == [t |-> "<!DOCTYPE>"]
Bytes(n) == [t |-> "bytes", v |-> n]
BlobUrl == [t |-> "blob:"]

\* The data-visual-id attribute of an element: absent, "el-<n>", or some
\* other value.
NoVid == [k |-> "none", n |-> 0]
ElId(n) == [k |-> "el", n |-> n]
CustomId(n) == [k |-> "custom", n |-> n]
El(vid) == [t |-> "element", vid |-> vid]

\* A path: directory segments, and the file name before and after its last dot.
Path(dir, stem, ext) == [dir |-> dir, stem |-> stem, ext |-> ext]
NoPath == Path(<<>>, "", "")

\* String.prototype.toLowerCase on the names that occur.
toLowerCase(str) ==
    CASE str = "EXE" -> "exe"
      [] str = "INDEX" -> "index"
      [] str = "HTML" -> "html"
      [] str = "__MACOSX" -> "__macosx"
      [] OTHER -> str

lowerPath(path) ==
    Path([i \in 1..Len(path.dir) |-> toLowerCase(path.dir[i])],
         toLowerCase(path.stem), toLowerCase(path.ext))

\* path.includes(str) for a str without '/' or '.': str occurs in a segment
\* (segments are compared whole).
includes(path, str) ==
    \/ \E i \in 1..Len(path.dir) : path.dir[i] = str
    \/ path.stem = str
    \/ path.ext = str

\* The files of the store's Project: the files the upload produced when
\* there was one, else its root page alone, whose content is the style value
\* of the editable element.
ProjectFiles(p) ==
    IF upload.stage = "success"
    THEN upload.project.files
    ELSE << [path |-> Path(<<>>, p.rootHtmlPath, "html"), type |-> "html",
             content |-> <<Text(p.content)>>] >>

\* Position of the first </style> at or after i, 0 when there is none.
RECURSIVE FirstStyleClose(_, _)
FirstStyleClose(c, i) ==
    IF i > Len(c) THEN 0
    ELSE IF c[i] = StyleClose THEN i
    ELSE FirstStyleClose(c, i + 1)

\* content.replace(/<style data-injected="true">[\s\S]*?<\/style>\n?/g, ''):
\* from each marker-tagged opening tag through the first </style> after it
\* and one newline if it follows.
RECURSIVE StripFrom(_, _)
StripFrom(c, i) ==
    IF i > Len(c) THEN <<>>
    ELSE IF c[i] = InjectedOpen
         THEN LET j == FirstStyleClose(c, i + 1)
              IN IF j = 0
                 THEN SubSeq(c, i, Len(c))
                 ELSE StripFrom(c, IF j < Len(c) /\ c[j + 1] = NL THEN j + 2 ELSE j + 1)
         ELSE <<c[i]>> \o StripFrom(c, i + 1)

StripInjected(c) == StripFrom(c, 1)

\* An export that writes every file as the Project holds it.
createZipUnstripped(files) ==
    [i \in 1..Len(files) |-> [path |-> files[i].path, content |-> files[i].content]]

\* createZipFromProject(project): zip.file(file.path, content) for each file
createZipFromProject(files) ==
    [i \in 1..Len(files) |->
        [path |-> files[i].path,
         content |-> IF files[i].type = "html"
                     THEN StripInjected(files[i].content)
                     ELSE files[i].content]]

\* <link ... href=Qhref Q ...> with quote character Q, the comment line of an
\* injected block, and the replacement pattern $& (the matched text).
Link(href, q) == [t |-> "<link>", href |-> href, q |-> q]
Comment(path) == [t |-> "/* path */", path |-> path]
DollarAmp == [t |-> "$&"]

\* html.includes(`href="${path}"`)
includesHref(html, path) ==
    \E i \in 1..Len(html) :
        /\ html[i].t = "<link>"
        /\ html[i].q = "\""
        /\ html[i].href = path

\* cssFile.path.split('/').pop()
basename(path) == Path(<<>>, path.stem, path.ext)

\* The replacement string as String.prototype.replace expands it.
RECURSIVE Substitute(_, _)
Substitute(replacement, matched) ==
    IF replacement = <<>> THEN <<>>
    ELSE (IF Head(replacement) = DollarAmp THEN matched ELSE <<Head(replacement)>>)
         \o Substitute(Tail(replacement), matched)

\* html.replace('</head>', replacement): the first occurrence only
replaceHeadClose(html, replacement) ==
    IF \E i \in 1..Len(html) : html[i] = HeadClose
    THEN LET i == CHOOSE k \in 1..Len(html) :
                     /\ html[k] = HeadClose
                     /\ \A j \in 1..(k - 1) : html[j] /= HeadClose
         IN SubSeq(html, 1, i - 1)
            \o Substitute(replacement, <<HeadClose>>)
            \o SubSeq(html, i + 1, Len(html))
    ELSE html

\* `<style data-injected="true">\n/* ${cssFile.path} */\n${cssFile.content}\n</style>`
styleTag(cssFile) ==
    <<InjectedOpen, NL, Comment(cssFile.path), NL>> \o cssFile.content \o <<NL, StyleClose>>

\* First cssFiles.forEach: inject the files that are not yet linked.
RECURSIVE injectStyles(_, _, _)
injectStyles(html, cssFiles, k) ==
    IF k > Len(cssFiles) THEN html
    ELSE LET cssFile == cssFiles[k]
         IN IF /\ ~includesHref(html, cssFile.path)
               /\ ~includesHref(html, basename(cssFile.path))
            THEN injectStyles(replaceHeadClose(html, styleTag(cssFile) \o <<NL, HeadClose>>),
                              cssFiles, k + 1)
            ELSE injectStyles(html, cssFiles, k + 1)

\* href=["'][^"']*${escapeRegex(cssFile.path)}["']: the href ends with the
\* path of the CSS file (segments are compared whole).
hrefEndsWith(href, path) ==
    /\ href.stem = path.stem
    /\ href.ext = path.ext
    /\ Len(path.dir) <= Len(href.dir)
    /\ SubSeq(href.dir, Len(href.dir) - Len(path.dir) + 1, Len(href.dir)) = path.dir

\* html.replace(pathPattern, `<style>${cssFile.content}</style>`) with the
\* global pattern: every matching <link>.
RECURSIVE replaceLinks(_, _)
replaceLinks(html, cssFile) ==
    IF html = <<>> THEN <<>>
    ELSE (IF Head(html).t = "<link>" /\ hrefEndsWith(Head(html).href, cssFile.path)
          THEN <<StyleOpen>> \o Substitute(cssFile.content, <<Head(html)>>) \o <<StyleClose>>
          ELSE <<Head(html)>>)
         \o replaceLinks(Tail(html), cssFile)

\* Second cssFiles.forEach: inline the linked files.
RECURSIVE inlineStyles(_, _, _)
inlineStyles(html, cssFiles, k) ==
    IF k > Len(cssFiles) THEN html
    ELSE inlineStyles(replaceLinks(html, cssFiles[k]), cssFiles, k + 1)

\* buildHtmlDocument(project)
buildHtmlDocument(files, rootHtmlPath) ==
    IF \E i \in 1..Len(files) : files[i].path = rootHtmlPath
    THEN LET htmlFile == files[CHOOSE i \in 1..Len(files) :
                                   /\ files[i].path = rootHtmlPath
                                   /\ \A j \in 1..(i - 1) : files[j].path /= rootHtmlPath]
             cssFiles == SelectSeq(files, LAMBDA f : f.type = "css")
         IN inlineStyles(injectStyles(htmlFile.content, cssFiles, 1), cssFiles, 1)
    ELSE <<>>

\* A validateFile that lets an empty file through.
validateFileNonEmptyUnchecked(file) ==
    IF file.size > MAX_FILE_SIZE
    THEN [valid |-> FALSE, error |-> "File size exceeds maximum allowed"]
    ELSE IF file.ext /= "zip"
    THEN [valid |-> FALSE, error |-> "Please upload a ZIP file (.zip extension required)"]
    ELSE [valid |-> TRUE, error |-> ""]

\* validateFile(file); file.name.endsWith('.zip') is file.ext = "zip"
validateFile(file) ==
    IF file.size > MAX_FILE_SIZE
    THEN [valid |-> FALSE, error |-> "File size exceeds maximum allowed"]
    ELSE IF file.ext /= "zip"
    THEN [valid |-> FALSE, error |-> "Please upload a ZIP file (.zip extension required)"]
    ELSE IF file.size = 0
    THEN [valid |-> FALSE, error |-> "File is empty"]
    ELSE [valid |-> TRUE, error |-> ""]

\* zipEntries.length: the entries read one by one, and the further plain
\* files of the archive that are only counted.
entryCount(archive) == Len(archive.entries) + archive.extra

\* The filter of dangerousFiles
dangerous(path) ==
    LET lower == lowerPath(path)
    IN \/ lower.ext = "exe"
       \/ lower.ext = "dll"
       \/ lower.ext = "bat"
       \/ lower.ext = "sh"
       \/ includes(lower, "__MACOSX")

dangerousFiles(archive) ==
    {i \in 1..Len(archive.entries) : dangerous(archive.entries[i].path)}

\* getFileType(path)
getFileType(path) ==
    LET ext == toLowerCase(path.ext)
    IN IF ext \in {"html", "htm"} THEN "html"
       ELSE IF ext \in {"css"} THEN "css"
       ELSE IF ext \in {"js", "jsx", "ts", "tsx"} THEN "js"
       ELSE IF ext \in {"png", "jpg", "jpeg", "gif", "svg", "webp", "ico"} THEN "image"
       ELSE "other"

isBinary(path) ==
    toLowerCase(path.ext) \in {"png", "jpg", "jpeg", "gif", "webp", "ico"}

\* The content a per-entry task stores: a blob URL for a binary entry, the
\* text of the entry otherwise.
readContent(entry) == IF isBinary(entry.path) THEN <<BlobUrl>> ELSE entry.content

\* lowerPath.endsWith('index.html') || !relativePath.includes('/')
rootCandidate(path) ==
    \/ lowerPath(path).stem = "index" /\ lowerPath(path).ext = "html"
    \/ path.dir = <<>>

\* An addIds that gives every element a new identifier.
RECURSIVE addIdsAlways(_, _, _)
addIdsAlways(c, i, idCounter) ==
    IF i > Len(c) THEN <<>>
    ELSE IF c[i] = Doctype THEN addIdsAlways(c, i + 1, idCounter)
    ELSE IF c[i].t = "element"
         THEN <<El(ElId(idCounter))>> \o addIdsAlways(c, i + 1, idCounter + 1)
         ELSE <<c[i]>> \o addIdsAlways(c, i + 1, idCounter)

\* addIds over the elements in document order; the serialisation
\* doc.documentElement.outerHTML leaves the doctype out.
RECURSIVE addIds(_, _, _)
addIds(c, i, idCounter) ==
    IF i > Len(c) THEN <<>>
    ELSE IF c[i] = Doctype THEN addIds(c, i + 1, idCounter)
    ELSE IF c[i].t = "element" /\ c[i].vid = NoVid
         THEN <<El(ElId(idCounter))>> \o addIds(c, i + 1, idCounter + 1)
         ELSE <<c[i]>> \o addIds(c, i + 1, idCounter)

\* An addVisualIdsToHtml that does not ask hasAttribute('data-visual-id').
addVisualIdsRegardless(html, startCounter) == addIdsAlways(html, 1, startCounter)

\* addVisualIdsToHtml(html, startCounter)
addVisualIdsToHtml(html, startCounter) == addIds(html, 1, startCounter)

\* The numbers of processed.match(/data-visual-id="el-(\d+)"/g)
idMatches(processed) ==
    {processed[i].vid.n : i \in {j \in 1..Len(processed) :
                                    /\ processed[j].t = "element"
                                    /\ processed[j].vid.k = "el"}}

\* globalIdCounter after a file: maxId + 1 when the file holds an el-<n>.
nextIdCounter(processed, globalIdCounter) ==
    IF idMatches(processed) = {}
    THEN globalIdCounter
    ELSE (CHOOSE m \in idMatches(processed) : \A n \in idMatches(processed) : n <= m) + 1

\* files.map(...) with the shared globalIdCounter
RECURSIVE processedFiles(_, _, _)
processedFiles(files, i, globalIdCounter) ==
    IF i > Len(files) THEN <<>>
    ELSE IF files[i].type = "html"
         THEN LET processed == addVisualIdsToHtml(files[i].content, globalIdCounter)
              IN <<[files[i] EXCEPT !.content = processed]>>
                 \o processedFiles(files, i + 1, nextIdCounter(processed, globalIdCounter))
         ELSE <<files[i]>> \o processedFiles(files, i + 1, globalIdCounter)

\* files.some(f => f.type === 'html') ... files.find(f => f.type === 'html')!.path
firstHtml(files) ==
    IF \E i \in 1..Len(files) : files[i].type = "html"
    THEN files[CHOOSE i \in 1..Len(files) :
                  /\ files[i].type = "html"
                  /\ \A j \in 1..(i - 1) : files[j].type /= "html"].path
    ELSE NoPath

----------------------------------------------------------------------------
(* Store actions *)

\* setProject(project)
SetProject(project) ==
    /\ timeout' = TimerNull
    /\ pendingAction' = NoAction
    /\ currentProject' = project
    /\ history' = <<[project |-> DeepCopy(project, "history"),
                     selectedElementId |-> NoId,
                     label |-> "Initial state"]>>
    /\ historyIndex' = 0
    /\ selectedElementId' = NoId
    /\ selectedElementData' = NullData
    /\ Render(currentProject')
    /\ lastOp' = Op("setProject", FALSE, FALSE)
    /\ UNCHANGED <<isHistoryEnabled, activeBatch, batchCommands>>

\* updateProject(updater), the updater returning its copy with new content c
UpdateProject(c) ==
    /\ currentProject /= NullProject
    /\ currentProject' = [DeepCopy(currentProject, "live") EXCEPT !.content = c]
    /\ Render(currentProject')
    /\ lastOp' = Op("updateProject", FALSE, FALSE)
    /\ UNCHANGED <<history, historyIndex, isHistoryEnabled, activeBatch, batchCommands,
                   selectedElementId, selectedElementData, timeout, pendingAction>>

\* updateElement(elementId, {styles}): the file holding the element gets the
\* new style; the Project object is rebuilt by spread.
UpdateElement(elementId, c) ==
    /\ currentProject /= NullProject
    /\ currentProject' = IF elementId \in ElementIds
                          THEN [currentProject EXCEPT !.content = c]
                          ELSE currentProject
    /\ Render(currentProject')
    /\ lastOp' = Op("updateElement", FALSE, FALSE)
    /\ UNCHANGED <<history, historyIndex, isHistoryEnabled, activeBatch, batchCommands,
                   selectedElementId, selectedElementData, timeout, pendingAction>>

\* setCurrentPage(htmlPath)
SetCurrentPage(htmlPath) ==
    /\ currentProject /= NullProject
    /\ currentProject' = [currentProject EXCEPT !.rootHtmlPath = htmlPath]
    /\ selectedElementId' = NoId
    /\ selectedElementData' = NullData
    /\ Render(currentProject')
    /\ lastOp' = Op("setCurrentPage", FALSE, FALSE)
    /\ UNCHANGED <<history, historyIndex, isHistoryEnabled, activeBatch, batchCommands,
                   timeout, pendingAction>>

\* selectElement(id)
SelectElement(id) ==
    /\ selectedElementId' = id
    /\ selectedElementData' = NullData
    /\ lastOp' = Op("selectElement", FALSE, FALSE)
    /\ UNCHANGED <<currentProject, history, historyIndex, isHistoryEnabled, activeBatch,
                   batchCommands, timeout, pendingAction, srcDoc, previewStyle>>

\* saveToHistory(label)
SaveToHistory(label) ==
    /\ isHistoryEnabled
    /\ currentProject /= NullProject
    /\ LET r == saveToHistory(history, historyIndex, isHistoryEnabled, currentProject,
                              selectedElementId, label)
       IN /\ history' = r.history
          /\ historyIndex' = r.historyIndex
          /\ lastOp' = Op("saveToHistory", FALSE, Cut(r))
    /\ timeout' = TimerNull
    /\ pendingAction' = NoAction
    /\ UNCHANGED <<currentProject, isHistoryEnabled, activeBatch, batchCommands,
                   selectedElementId, selectedElementData, srcDoc, previewStyle>>

\* A debouncedSaveToHistory that commits at once instead of arming the timer.
DebouncedSaveImmediately(label) == SaveToHistory(label)

\* debouncedSaveToHistory(label, delay)
DebouncedSaveToHistory(label) ==
    /\ isHistoryEnabled
    /\ currentProject /= NullProject
    /\ pendingAction' = <<label>>
    /\ timeout' = TimerArmed
    /\ lastOp' = Op("debouncedSaveToHistory", Pending, FALSE)
    /\ UNCHANGED <<currentProject, history, historyIndex, isHistoryEnabled, activeBatch,
                   batchCommands, selectedElementId, selectedElementData, srcDoc,
                   previewStyle>>

\* The debouncer's setTimeout callback
TimerFires ==
    /\ timeout = TimerArmed
    /\ LET r == flush
       IN /\ history' = r.history
          /\ historyIndex' = r.historyIndex
          /\ timeout' = IF r.saved THEN TimerNull ELSE TimerStale
          /\ lastOp' = Op("timer", Pending, Cut(r))
    /\ pendingAction' = NoAction
    /\ UNCHANGED <<currentProject, isHistoryEnabled, activeBatch, batchCommands,
                   selectedElementId, selectedElementData, srcDoc, previewStyle>>

\* flushHistory()
FlushHistory ==
    /\ LET r == flush
       IN /\ history' = r.history
          /\ historyIndex' = r.historyIndex
          /\ lastOp' = Op("flushHistory", Pending, Cut(r))
    /\ timeout' = TimerNull
    /\ pendingAction' = NoAction
    /\ UNCHANGED <<currentProject, isHistoryEnabled, activeBatch, batchCommands,
                   selectedElementId, selectedElementData, srcDoc, previewStyle>>

\* undo() stepping back whenever the cursor is not negative.
UndoBelowZero ==
    /\ LET r == flush
       IN /\ history' = r.history
          /\ IF r.historyIndex >= 0
             THEN /\ historyIndex' = r.historyIndex - 1
                  /\ currentProject' = currentProject
                  /\ selectedElementId' = selectedElementId
             ELSE /\ historyIndex' = r.historyIndex
                  /\ UNCHANGED <<currentProject, selectedElementId>>
          /\ lastOp' = Op("undo", Pending, Cut(r))
    /\ timeout' = TimerNull
    /\ pendingAction' = NoAction
    /\ Render(currentProject')
    /\ UNCHANGED <<isHistoryEnabled, activeBatch, batchCommands, selectedElementData>>

\* undo()
Undo ==
    /\ LET r == flush
       IN /\ history' = r.history
          /\ IF r.historyIndex > 0
             THEN LET newIndex == r.historyIndex - 1
                      entry == Current(r.history, newIndex)
                  IN /\ historyIndex' = newIndex
                     /\ currentProject' = DeepCopy(entry.project, "live")
                     /\ selectedElementId' = entry.selectedElementId
             ELSE /\ historyIndex' = r.historyIndex
                  /\ UNCHANGED <<currentProject, selectedElementId>>
          /\ lastOp' = Op("undo", Pending, Cut(r))
    /\ timeout' = TimerNull
    /\ pendingAction' = NoAction
    /\ Render(currentProject')
    /\ UNCHANGED <<isHistoryEnabled, activeBatch, batchCommands, selectedElementData>>

\* redo()
Redo ==
    /\ LET r == flush
       IN /\ history' = r.history
          /\ IF r.historyIndex < Len(r.history) - 1
             THEN LET newIndex == r.historyIndex + 1
                      entry == Current(r.history, newIndex)
                  IN /\ historyIndex' = newIndex
                     /\ currentProject' = DeepCopy(entry.project, "live")
                     /\ selectedElementId' = entry.selectedElementId
             ELSE /\ historyIndex' = r.historyIndex
                  /\ UNCHANGED <<currentProject, selectedElementId>>
          /\ lastOp' = Op("redo", Pending, Cut(r))
    /\ timeout' = TimerNull
    /\ pendingAction' = NoAction
    /\ Render(currentProject')
    /\ UNCHANGED <<isHistoryEnabled, activeBatch, batchCommands, selectedElementData>>

\* setHistoryEnabled(enabled)
SetHistoryEnabled(enabled) ==
    /\ isHistoryEnabled' = enabled
    /\ lastOp' = Op("setHistoryEnabled", FALSE, FALSE)
    /\ UNCHANGED <<currentProject, history, historyIndex, activeBatch, batchCommands,
                   selectedElementId, selectedElementData, timeout, pendingAction,
                   srcDoc, previewStyle>>

\* clearHistory()
ClearHistory ==
    /\ timeout' = TimerNull
    /\ pendingAction' = NoAction
    /\ IF currentProject /= NullProject
       THEN /\ history' = <<[project |-> DeepCopy(currentProject, "history"),
                             selectedElementId |-> NoId,
                             label |-> "Cleared"]>>
            /\ historyIndex' = 0
       ELSE UNCHANGED <<history, historyIndex>>
    /\ lastOp' = Op("clearHistory", FALSE, FALSE)
    /\ UNCHANGED <<currentProject, isHistoryEnabled, activeBatch, batchCommands,
                   selectedElementId, selectedElementData, srcDoc, previewStyle>>

\* startBatch(label)
StartBatch(label) ==
    /\ activeBatch' = label
    /\ batchCommands' = <<>>
    /\ lastOp' = Op("startBatch", FALSE, FALSE)
    /\ UNCHANGED <<currentProject, history, historyIndex, isHistoryEnabled,
                   selectedElementId, selectedElementData, timeout, pendingAction,
                   srcDoc, previewStyle>>

\* endBatch()
EndBatch ==
    /\ LET commit == activeBatch /= NoBatch /\ Len(batchCommands) > 0
           r == IF commit
                THEN saveToHistory(history, historyIndex, isHistoryEnabled,
                                   currentProject, selectedElementId, activeBatch)
                ELSE [history |-> history, historyIndex |-> historyIndex, saved |-> FALSE]
       IN /\ history' = r.history
          /\ historyIndex' = r.historyIndex
          /\ timeout' = IF r.saved THEN TimerNull ELSE timeout
          /\ pendingAction' = IF r.saved THEN NoAction ELSE pendingAction
          /\ lastOp' = Op("endBatch", FALSE, Cut(r))
    /\ activeBatch' = NoBatch
    /\ batchCommands' = <<>>
    /\ UNCHANGED <<currentProject, isHistoryEnabled, selectedElementId,
                   selectedElementData, srcDoc, previewStyle>>

\* cancelBatch()
CancelBatch ==
    /\ IF activeBatch /= NoBatch /\ historyIndex >= 0
       THEN /\ currentProject' = DeepCopy(Current(history, historyIndex).project, "live")
            /\ activeBatch' = NoBatch
            /\ batchCommands' = <<>>
       ELSE UNCHANGED <<currentProject, activeBatch, batchCommands>>
    /\ Render(currentProject')
    /\ lastOp' = Op("cancelBatch", FALSE, FALSE)
    /\ UNCHANGED <<history, historyIndex, isHistoryEnabled, selectedElementId,
                   selectedElementData, timeout, pendingAction>>

\* setElementData(data)
SetElementData(data) ==
    /\ selectedElementData' = data
    /\ lastOp' = Op("setElementData", FALSE, FALSE)
    /\ UNCHANGED <<currentProject, history, historyIndex, isHistoryEnabled, activeBatch,
                   batchCommands, selectedElementId, timeout, pendingAction, srcDoc,
                   previewStyle>>

\* updateElementStyle(elementId, property, value), with the Canvas listener of
\* 'editor:style-change' that the store dispatches to
UpdateElementStyle(elementId, c) ==
    /\ selectedElementData /= NullData
    /\ selectedElementData' = [selectedElementData EXCEPT !.style = c]
    /\ previewStyle' = IF srcDoc /= NoSrc /\ elementId \in ElementIds
                       THEN c
                       ELSE previewStyle
    /\ lastOp' = Op("updateElementStyle", FALSE, FALSE)
    /\ UNCHANGED <<currentProject, history, historyIndex, isHistoryEnabled, activeBatch,
                   batchCommands, selectedElementId, timeout, pendingAction, srcDoc>>

----------------------------------------------------------------------------
(* User interface *)

\* LayersPanel.handleLayerReorder: the live document is written into the
\* Project through updateProject, then 'editor:save-history' makes the store
\* listener call saveToHistory('Reorder layer').
LayerReorder ==
    /\ currentProject /= NullProject
    /\ LET updated == [DeepCopy(currentProject, "live") EXCEPT !.content = previewStyle]
           r == saveToHistory(history, historyIndex, isHistoryEnabled, updated,
                              selectedElementId, "Reorder layer")
       IN /\ currentProject' = updated
          /\ history' = r.history
          /\ historyIndex' = r.historyIndex
          /\ timeout' = IF r.saved THEN TimerNull ELSE timeout
          /\ pendingAction' = IF r.saved THEN NoAction ELSE pendingAction
          /\ lastOp' = Op("layerReorder", FALSE, Cut(r))
    /\ Render(currentProject')
    /\ UNCHANGED <<isHistoryEnabled, activeBatch, batchCommands, selectedElementId,
                   selectedElementData>>

\* Canvas mousedownHandler in select mode: selectElement(id), then
\* setElementData with the styles read from the live element.
CanvasMouseDown(id) ==
    /\ srcDoc /= NoSrc
    /\ selectedElementId' = id
    /\ selectedElementData' = [id |-> id, style |-> previewStyle]
    /\ lastOp' = Op("mousedown", FALSE, FALSE)
    /\ UNCHANGED <<currentProject, history, historyIndex, isHistoryEnabled, activeBatch,
                   batchCommands, timeout, pendingAction, srcDoc, previewStyle>>

\* PropertiesPanel.handleStyleChange(property, value)
PanelStyleChange(c) ==
    /\ selectedElementId /= NoId
    /\ UpdateElementStyle(selectedElementId, c)

\* PropertiesPanel.handleBlur
PanelBlur ==
    /\ selectedElementData /= NullData
    /\ SaveToHistory(Undefined)

\* Canvas handleKeyUp for an arrow key
CanvasArrowKeyUp ==
    /\ srcDoc /= NoSrc
    /\ selectedElementId /= NoId
    /\ DebouncedSaveToHistory("Nudge element")

\* Canvas handleKeyDown for an arrow key: el.style.left / el.style.top of the
\* selected element in the live document.
CanvasNudge(c) ==
    /\ srcDoc /= NoSrc
    /\ selectedElementId /= NoId
    /\ previewStyle' = c
    /\ lastOp' = Op("nudge", FALSE, FALSE)
    /\ UNCHANGED <<currentProject, history, historyIndex, isHistoryEnabled, activeBatch,
                   batchCommands, selectedElementId, selectedElementData, timeout,
                   pendingAction, srcDoc>>

\* Canvas mousemoveHandler while dragging the element pressed on:
\* el.style.left / el.style.top in the live document.
CanvasMouseMove(c) ==
    /\ srcDoc /= NoSrc
    /\ selectedElementId /= NoId
    /\ previewStyle' = c
    /\ lastOp' = Op("mousemove", FALSE, FALSE)
    /\ UNCHANGED <<currentProject, history, historyIndex, isHistoryEnabled, activeBatch,
                   batchCommands, selectedElementId, selectedElementData, timeout,
                   pendingAction, srcDoc>>

\* Canvas mouseupHandler after a move: debouncedSaveToHistory('Move element', 500)
CanvasMouseUp ==
    /\ lastOp.op = "mousemove"
    /\ DebouncedSaveToHistory("Move element")

\* ExportPanel.handleExport: createZipFromProject(currentProject)
ExportClick ==
    /\ currentProject /= NullProject
    /\ exported' = createZipFromProject(ProjectFiles(currentProject))
    /\ lastOp' = Op("export", FALSE, FALSE)
    /\ UNCHANGED <<currentProject, history, historyIndex, isHistoryEnabled, activeBatch,
                   batchCommands, selectedElementId, selectedElementData, timeout,
                   pendingAction, srcDoc, previewStyle>>

----------------------------------------------------------------------------
(* Upload *)

storeVars == <<currentProject, history, historyIndex, isHistoryEnabled, activeBatch,
               batchCommands, selectedElementId, selectedElementData, timeout,
               pendingAction, srcDoc, previewStyle>>

\* Archive entries an upload may hold.
SampleEntries ==
    { [path |-> Path(<<>>, "index", "html"), content |-> <<Doctype, El(NoVid), El(NoVid)>>],
      [path |-> Path(<<>>, "about", "html"), content |-> <<El(NoVid), El(ElId(0))>>],
      [path |-> Path(<<"pages">>, "index", "html"), content |-> <<El(NoVid)>>],
      [path |-> Path(<<"pages">>, "contact", "html"), content |-> <<El(CustomId(0))>>],
      [path |-> Path(<<>>, "style", "css"), content |-> <<Text(1)>>],
      [path |-> Path(<<"img">>, "logo", "png"), content |-> <<Bytes(1)>>],
      [path |-> Path(<<>>, "run", "EXE"), content |-> <<Bytes(2)>>],
      [path |-> Path(<<"__MACOSX">>, "._index", "html"), content |-> <<Bytes(3)>>] }

\* Archives: up to MaxEntries entries of different paths in entry order, and
\* a number of further plain files.
Archives ==
    { [entries |-> e, extra |-> x] :
        e \in { q \in UNION { [1..n -> SampleEntries] : n \in 1..MaxEntries } :
                   \A i, j \in DOMAIN q : i /= j => q[i] /= q[j] },
        x \in {0, MAX_FILES_COUNT - 1} }

Files ==
    [ext : {"zip", "txt"},
     size : {0, MAX_FILE_SIZE, MAX_FILE_SIZE + 1},
     archive : Archives]

Failure(file, err) == [stage |-> "error", file |-> file, error |-> err]

\* FileUpload.handleFile(file) up to the start of the per-entry reads:
\* validateFile, processZipFile's entry count and denylist.
HandleFile(file) ==
    /\ upload.stage = "idle"
    /\ LET validation == validateFile(file)
           zipEntries == file.archive
       IN IF ~validation.valid
          THEN /\ upload' = Failure(file, [message |-> validation.error])
               /\ extraction' = NoExtraction
          ELSE IF entryCount(zipEntries) > MAX_FILES_COUNT
          THEN /\ upload' = Failure(file, [message |-> "ZIP contains too many files",
                                           count |-> entryCount(zipEntries),
                                           max |-> MAX_FILES_COUNT])
               /\ extraction' = NoExtraction
          ELSE IF dangerousFiles(zipEntries) /= {}
          THEN /\ upload' = Failure(file, [message |-> "ZIP contains unsupported file types",
                                           files |-> dangerousFiles(zipEntries)])
               /\ extraction' = NoExtraction
          ELSE /\ upload' = [stage |-> "uploading", file |-> file]
               /\ extraction' = [stage |-> "extracting",
                                 pending |-> 1..Len(zipEntries.entries),
                                 files |-> <<>>,
                                 rootHtmlPath |-> NoPath,
                                 failed |-> {}]
    /\ lastOp' = Op("handleFile", FALSE, FALSE)
    /\ UNCHANGED storeVars

\* The per-entry task of entry i runs to its end: files.push and the root
\* HTML choice.  The tasks end in any order.
EntryRead(i) ==
    /\ extraction.stage = "extracting"
    /\ i \in extraction.pending
    /\ LET entry == upload.file.archive.entries[i]
           type == getFileType(entry.path)
       IN extraction' =
             [extraction EXCEPT
                 !.pending = @ \ {i},
                 !.files = Append(@, [path |-> entry.path,
                                      content |-> readContent(entry),
                                      type |-> type]),
                 !.rootHtmlPath = IF type = "html" /\ @ = NoPath /\ rootCandidate(entry.path)
                                  THEN entry.path
                                  ELSE @]
    /\ lastOp' = Op("entryRead", FALSE, FALSE)
    /\ UNCHANGED upload
    /\ UNCHANGED storeVars

\* A per-entry task whose failure rejects the whole batch.
EntryFailsBatch(i) ==
    /\ extraction.stage = "extracting"
    /\ i \in extraction.pending
    /\ upload' = Failure(upload.file, [message |-> "Failed to process ZIP file"])
    /\ extraction' = NoExtraction
    /\ lastOp' = Op("entryFails", FALSE, FALSE)
    /\ UNCHANGED storeVars

\* The read of entry i throws: the task's catch logs and goes on.
EntryFails(i) ==
    /\ extraction.stage = "extracting"
    /\ i \in extraction.pending
    /\ extraction' = [extraction EXCEPT !.pending = @ \ {i}, !.failed = @ \cup {i}]
    /\ lastOp' = Op("entryFails", FALSE, FALSE)
    /\ UNCHANGED upload
    /\ UNCHANGED storeVars

\* After Promise.all: fallback root, the "no HTML" failure, identifier
\* injection, and in handleFile setProject(result.project) on success.
FinishUpload ==
    /\ extraction.stage = "extracting"
    /\ extraction.pending = {}
    /\ LET files == extraction.files
           rootHtmlPath == IF extraction.rootHtmlPath = NoPath
                           THEN firstHtml(files)
                           ELSE extraction.rootHtmlPath
       IN IF rootHtmlPath = NoPath
          THEN /\ upload' = Failure(upload.file,
                                    [message |-> "No HTML file found in the ZIP archive"])
               /\ lastOp' = Op("finishUpload", FALSE, FALSE)
               /\ UNCHANGED storeVars
          ELSE /\ upload' = [stage |-> "success",
                             file |-> upload.file,
                             project |-> [files |-> processedFiles(files, 1, 0),
                                          rootHtmlPath |-> rootHtmlPath],
                             failed |-> extraction.failed]
               /\ \E p \in InputProjects : SetProject(p)
    /\ extraction' = NoExtraction

\* The interface outside the store's history: nothing loading, no error
\* shown, no upload or export under way, no drag, no listener attached.
NullError == "<null>"
NoFile == [ext |-> "<null>", size |-> -1, success |-> FALSE]
NoFileUpload == [uploadStatus |-> "idle", recentFile |-> NoFile, runs |-> {}]
NoExportPanel == [status |-> "idle", errorMessage |-> NullError]
NoDrag == [stage |-> "idle"]
NoListeners == [stage |-> "idle"]

InitUi ==
    /\ isLoading = FALSE
    /\ error = NullError
    /\ fileUpload = NoFileUpload
    /\ exportPanel = NoExportPanel
    /\ drag = NoDrag
    /\ listeners = NoListeners

\* The store and the canvas with no Project loaded.
InitStoreEmpty ==
    /\ currentProject = NullProject
    /\ history = <<>>
    /\ historyIndex = -1
    /\ isHistoryEnabled = TRUE
    /\ activeBatch = NoBatch
    /\ batchCommands = <<>>
    /\ selectedElementId = NoId
    /\ selectedElementData = NullData
    /\ timeout = TimerNull
    /\ pendingAction = NoAction
    /\ srcDoc = htmlContent(currentProject)
    /\ previewStyle = htmlContent(currentProject).style
    /\ lastOp = Op("init", FALSE, FALSE)
    /\ batchBase = NoBase
    /\ panelEdit = NoEdit

\* A key press that leaves the store as it is.
Ignored(name) ==
    /\ lastOp' = Op(name, Pending, FALSE)
    /\ UNCHANGED <<currentProject, history, historyIndex, isHistoryEnabled, activeBatch,
                   batchCommands, selectedElementId, selectedElementData, timeout,
                   pendingAction, srcDoc, previewStyle>>

\* App.handleKeyDown / useKeyboardShortcuts, Ctrl/Cmd+Z: if (canUndo()) undo()
KeyUndo == IF canUndo THEN Undo ELSE Ignored("keyUndo")

\* Ctrl/Cmd+Shift+Z, Ctrl/Cmd+Y: if (canRedo()) redo()
KeyRedo == IF canRedo THEN Redo ELSE Ignored("keyRedo")

\* Toolbar undo button: onClick={undo} disabled={!canUndo()}
ClickUndo == canUndo /\ Undo

\* Toolbar redo button: onClick={redo} disabled={!canRedo()}
ClickRedo == canRedo /\ Redo

----------------------------------------------------------------------------
(* The store after construction.  The persist middleware restores only     *)
(* currentProject (and the canvas) from local storage: after a reload the  *)
(* Project is there and the history is empty.                              *)

Init ==
    /\ InitUi
    /\ currentProject \in {NullProject} \cup InputProjects
    /\ history = <<>>
    /\ historyIndex = -1
    /\ isHistoryEnabled = TRUE
    /\ activeBatch = NoBatch
    /\ batchCommands = <<>>
    /\ selectedElementId = NoId
    /\ selectedElementData = NullData
    /\ timeout = TimerNull
    /\ pendingAction = NoAction
    /\ srcDoc = htmlContent(currentProject)
    /\ previewStyle = htmlContent(currentProject).style
    /\ lastOp = Op("init", FALSE, FALSE)
    /\ batchBase = NoBase
    /\ panelEdit = NoEdit
    /\ upload = NoUpload
    /\ extraction = NoExtraction
    /\ exported = NoArchive
    /\ document = NoDocument

\* The History Manager driven through the store's actions, explored while
\* the history holds at most MaxHistory entries.
Next ==
    /\ UNCHANGED uiVars
    /\ UNCHANGED fileVars
    /\ Len(history) <= MaxHistory
    /\ UNCHANGED <<batchBase, panelEdit>>
    /\ \/ \E p \in InputProjects : SetProject(p)
       \/ \E c \in Contents : UpdateProject(c)
       \/ SaveToHistory(Undefined)
       \/ DebouncedSaveToHistory("Move element")
       \/ TimerFires
       \/ FlushHistory
       \/ Undo
       \/ Redo
       \/ \E b \in BOOLEAN : SetHistoryEnabled(b)
       \/ ClearHistory
       \/ \E l \in BatchLabels : StartBatch(l)
       \/ EndBatch
       \/ CancelBatch

Spec == Init /\ [][Next]_vars

\* Every way the store replaces or copies the live Project.
NextCopy ==
    /\ UNCHANGED uiVars
    /\ UNCHANGED fileVars
    /\ Len(history) <= MaxHistory
    /\ UNCHANGED <<batchBase, panelEdit>>
    /\ \/ \E p \in InputProjects : SetProject(p)
       \/ \E c \in Contents : UpdateProject(c)
       \/ \E c \in Contents : UpdateElement("el-1", c)
       \/ \E page \in Pages : SetCurrentPage(page)
       \/ LayerReorder
       \/ SaveToHistory(Undefined)
       \/ Undo
       \/ Redo
       \/ ClearHistory
       \/ \E l \in BatchLabels : StartBatch(l)
       \/ CancelBatch

SpecCopy == Init /\ [][NextCopy]_vars

\* Commits and undo/redo of one unchanged Project, up to the 50-entry limit.
NextLimit ==
    /\ UNCHANGED uiVars
    /\ UNCHANGED fileVars
    /\ UNCHANGED <<batchBase, panelEdit>>
    /\ \/ \E p \in InputProjects : SetProject(p)
       \/ SaveToHistory(Undefined)
       \/ DebouncedSaveToHistory(Undefined)
       \/ TimerFires
       \/ Undo
       \/ Redo

SpecLimit == Init /\ [][NextLimit]_vars

\* Batches, with the Project at startBatch remembered, and whether it was
\* then the Project of the entry under the cursor.
NextBatch ==
    /\ UNCHANGED uiVars
    /\ UNCHANGED fileVars
    /\ Len(history) <= MaxHistory
    /\ UNCHANGED panelEdit
    /\ \/ /\ UNCHANGED batchBase
          /\ \/ \E p \in InputProjects : SetProject(p)
             \/ \E c \in Contents : UpdateProject(c)
             \/ SaveToHistory(Undefined)
             \/ DebouncedSaveToHistory("Move element")
             \/ TimerFires
       \/ /\ \E l \in BatchLabels : StartBatch(l)
          /\ batchBase' =
                [project |-> currentProject,
                 clean |-> /\ historyIndex >= 0
                           /\ Value(currentProject) =
                                 Value(Current(history, historyIndex).project)]
       \/ /\ EndBatch
          /\ batchBase' = NoBase
       \/ /\ CancelBatch
          /\ batchBase' = IF activeBatch' = NoBatch THEN NoBase ELSE batchBase

SpecBatch == Init /\ [][NextBatch]_vars

\* The editor as the user drives it.
NextUI ==
    /\ UNCHANGED uiVars
    /\ UNCHANGED fileVars
    /\ Len(history) <= MaxHistory
    /\ UNCHANGED batchBase
    /\ \/ /\ panelEdit' = NoEdit
          /\ \/ \E p \in InputProjects : SetProject(p)
             \/ \E id \in ElementIds : CanvasMouseDown(id)
             \/ CanvasArrowKeyUp
             \/ TimerFires
             \/ LayerReorder
             \/ KeyRedo
             \/ ClickRedo
       \/ /\ \E c \in Contents : PanelStyleChange(c)
          /\ panelEdit' = IF panelEdit.phase = "changed"
                          THEN panelEdit
                          ELSE IF previewStyle' /= previewStyle
                               THEN [phase |-> "changed", prev |-> previewStyle]
                               ELSE NoEdit
       \/ /\ PanelBlur
          /\ panelEdit' = IF panelEdit.phase = "changed"
                          THEN [panelEdit EXCEPT !.phase = "committed"]
                          ELSE NoEdit
       \/ /\ KeyUndo \/ ClickUndo
          /\ panelEdit' = IF panelEdit.phase = "committed" /\ canUndo
                          THEN [panelEdit EXCEPT !.phase = "undone"]
                          ELSE NoEdit

SpecUI == Init /\ [][NextUI]_vars

\* Editing in the canvas and the properties panel, and exporting.
NextExport ==
    /\ UNCHANGED uiVars
    /\ Len(history) <= MaxHistory
    /\ UNCHANGED <<batchBase, panelEdit, upload, extraction, document>>
    /\ \/ /\ UNCHANGED exported
          /\ \/ \E p \in InputProjects : SetProject(p)
             \/ \E id \in ElementIds : CanvasMouseDown(id)
             \/ \E c \in Contents : PanelStyleChange(c)
             \/ PanelBlur
             \/ \E c \in Contents : CanvasNudge(c)
             \/ CanvasArrowKeyUp
             \/ \E c \in Contents : CanvasMouseMove(c)
             \/ CanvasMouseUp
             \/ TimerFires
             \/ FlushHistory
       \/ ExportClick

SpecExport == Init /\ [][NextExport]_vars

\* One upload from validation to the installed Project, and its export.
NextUpload ==
    /\ UNCHANGED uiVars
    /\ UNCHANGED <<batchBase, panelEdit, document>>
    /\ \/ /\ UNCHANGED exported
          /\ \/ \E file \in Files : HandleFile(file)
             \/ \E i \in 1..MaxEntries : EntryRead(i)
             \/ \E i \in 1..MaxEntries : EntryFails(i)
             \/ FinishUpload
       \/ /\ upload.stage = "success"
          /\ ExportClick
          /\ UNCHANGED <<upload, extraction>>

SpecUpload == Init /\ [][NextUpload]_vars

\* Assembly of the preview document and export of the assembled document,
\* for Projects of one root page and up to MaxCssFiles CSS files.
IndexHtml == Path(<<>>, "index", "html")
StyleCss == Path(<<>>, "style", "css")
ThemeCss == Path(<<"css">>, "theme", "css")

SampleHtml ==
    { <<Text(0), HeadClose, Text(1)>>,
      <<Text(0), Text(1)>>,
      <<StyleOpen, Text(2), StyleClose, HeadClose, Text(1)>>,
      <<InjectedOpen, Text(3), StyleClose, NL, HeadClose, Text(1)>>,
      <<Link(StyleCss, "\""), HeadClose, Text(1)>>,
      <<Link(StyleCss, "'"), HeadClose, Text(1)>>,
      <<Link(ThemeCss, "\""), HeadClose, Text(1)>>,
      <<Link(basename(ThemeCss), "\""), HeadClose, Text(1)>>,
      <<Link(Path(<<"..", "css">>, "theme", "css"), "\""), HeadClose, Text(1)>> }

SampleCss ==
    { [path |-> StyleCss, type |-> "css", content |-> <<Text(5)>>],
      [path |-> ThemeCss, type |-> "css", content |-> <<Text(6)>>],
      [path |-> Path(<<>>, "print", "css"), type |-> "css",
       content |-> <<Text(7), StyleClose, Text(8)>>],
      [path |-> Path(<<>>, "note", "css"), type |-> "css",
       content |-> <<Text(9), HeadClose>>],
      [path |-> Path(<<>>, "money", "css"), type |-> "css",
       content |-> <<Text(10), DollarAmp>>] }

CssLists ==
    UNION { { q \in [1..n -> SampleCss] : \A i, j \in 1..n : q[i] = q[j] => i = j } :
            n \in 0..MaxCssFiles }

Documents ==
    { [stage |-> "input",
       files |-> <<[path |-> IndexHtml, type |-> "html", content |-> h]>> \o css,
       rootHtmlPath |-> IndexHtml,
       html |-> <<>>] : h \in SampleHtml, css \in CssLists }

InitDocument ==
    /\ InitUi
    /\ currentProject = NullProject
    /\ history = <<>>
    /\ historyIndex = -1
    /\ isHistoryEnabled = TRUE
    /\ activeBatch = NoBatch
    /\ batchCommands = <<>>
    /\ selectedElementId = NoId
    /\ selectedElementData = NullData
    /\ timeout = TimerNull
    /\ pendingAction = NoAction
    /\ srcDoc = htmlContent(currentProject)
    /\ previewStyle = htmlContent(currentProject).style
    /\ lastOp = Op("init", FALSE, FALSE)
    /\ batchBase = NoBase
    /\ panelEdit = NoEdit
    /\ upload = NoUpload
    /\ extraction = NoExtraction
    /\ exported = NoArchive
    /\ document \in Documents

\* The root page of the document, and the files with the root page's
\* content replaced.
rootContent(doc) == doc.files[1].content

withRootContent(files, rootHtmlPath, html) ==
    [i \in 1..Len(files) |->
        IF files[i].path = rootHtmlPath THEN [files[i] EXCEPT !.content = html]
        ELSE files[i]]

Assemble ==
    /\ document.stage = "input"
    /\ document' = [document EXCEPT
                       !.stage = "assembled",
                       !.html = buildHtmlDocument(document.files, document.rootHtmlPath)]
    /\ UNCHANGED exported

ExportAssembled ==
    /\ document.stage = "assembled"
    /\ exported' = createZipFromProject(
                       withRootContent(document.files, document.rootHtmlPath, document.html))
    /\ document' = [document EXCEPT !.stage = "exported"]

NextDocument ==
    /\ UNCHANGED uiVars
    /\ UNCHANGED <<storeVars, srcDoc, previewStyle, lastOp, batchBase, panelEdit,
                   upload, extraction>>
    /\ \/ Assemble
       \/ ExportAssembled

SpecDocument == InitDocument /\ [][NextDocument]_vars

\* Identifier injection applied to a page and again to its own output. A
\* page is the sequence of its elements in document order as the parser
\* yields them, after an optional doctype.
SampleIds == {NoVid, ElId(0), ElId(1), CustomId(0)}

SamplePages ==
    LET elements == UNION { [1..n -> {El(v) : v \in SampleIds}] : n \in 1..MaxElements }
    IN elements \cup {<<Doctype>> \o e : e \in elements}

StartCounters == 0..MaxCounter

InitIds ==
    /\ InitUi
    /\ currentProject = NullProject
    /\ history = <<>>
    /\ historyIndex = -1
    /\ isHistoryEnabled = TRUE
    /\ activeBatch = NoBatch
    /\ batchCommands = <<>>
    /\ selectedElementId = NoId
    /\ selectedElementData = NullData
    /\ timeout = TimerNull
    /\ pendingAction = NoAction
    /\ srcDoc = htmlContent(currentProject)
    /\ previewStyle = htmlContent(currentProject).style
    /\ lastOp = Op("init", FALSE, FALSE)
    /\ batchBase = NoBase
    /\ panelEdit = NoEdit
    /\ upload = NoUpload
    /\ extraction = NoExtraction
    /\ exported = NoArchive
    /\ document \in {[stage |-> "page", html |-> h, first |-> <<>>, second |-> <<>>,
                       counters |-> <<>>] : h \in SamplePages}

InjectIds(startCounter) ==
    /\ document.stage = "page"
    /\ document' = [document EXCEPT
                       !.stage = "once",
                       !.first = addVisualIdsToHtml(document.html, startCounter),
                       !.counters = <<startCounter>>]

InjectIdsAgain(startCounter) ==
    /\ document.stage = "once"
    /\ document' = [document EXCEPT
                       !.stage = "twice",
                       !.second = addVisualIdsToHtml(document.first, startCounter),
                       !.counters = Append(document.counters, startCounter)]

NextIds ==
    /\ UNCHANGED uiVars
    /\ UNCHANGED <<storeVars, srcDoc, previewStyle, lastOp, batchBase, panelEdit,
                   upload, extraction, exported>>
    /\ \/ \E startCounter \in StartCounters : InjectIds(startCounter)
       \/ \E startCounter \in StartCounters : InjectIdsAgain(startCounter)

SpecIds == InitIds /\ [][NextIds]_vars

\* Snapping of a dragged element to the other positioned elements of the
\* page.  Offsets and sizes are whole pixels and sizes are even, so that
\* the centres are whole pixels too; canvas.scale is the fraction num/den.
Scale(num, den) == [num |-> num, den |-> den]

Distance(a, b) == IF a >= b THEN a - b ELSE b - a

\* Math.abs(a - b) < snapThreshold, with snapThreshold = 8 / canvas.scale
withinSnapThreshold(a, b, scale) == Distance(a, b) * scale.num < 8 * scale.den

SnapLine(orientation, position) == [orientation |-> orientation, position |-> position]

\* The eighteen checks of one other element, in the order of the code.
snapChecks(x, y, width, height, other) ==
    LET cur == [left |-> x, right |-> x + width, top |-> y, bottom |-> y + height,
                centerX |-> x + width \div 2, centerY |-> y + height \div 2]
        oth == [left |-> other.left, right |-> other.left + other.width,
                top |-> other.top, bottom |-> other.top + other.height,
                centerX |-> other.left + other.width \div 2,
                centerY |-> other.top + other.height \div 2]
        check(c, t, o) == [current |-> c, target |-> t, orientation |-> o]
    IN << check(cur.left, oth.left, "vertical"),
          check(cur.left, oth.centerX, "vertical"),
          check(cur.left, oth.right, "vertical"),
          check(cur.centerX, oth.left, "vertical"),
          check(cur.centerX, oth.centerX, "vertical"),
          check(cur.centerX, oth.right, "vertical"),
          check(cur.right, oth.left, "vertical"),
          check(cur.right, oth.centerX, "vertical"),
          check(cur.right, oth.right, "vertical"),
          check(cur.top, oth.top, "horizontal"),
          check(cur.top, oth.centerY, "horizontal"),
          check(cur.top, oth.bottom, "horizontal"),
          check(cur.centerY, oth.top, "horizontal"),
          check(cur.centerY, oth.centerY, "horizontal"),
          check(cur.centerY, oth.bottom, "horizontal"),
          check(cur.bottom, oth.top, "horizontal"),
          check(cur.bottom, oth.centerY, "horizontal"),
          check(cur.bottom, oth.bottom, "horizontal") >>

\* for (const check of checks): a line for each check within the threshold
\* that is not yet present.
RECURSIVE addSnapLines(_, _, _, _)
addSnapLines(lines, checks, i, scale) ==
    IF i > Len(checks) THEN lines
    ELSE LET check == checks[i]
         IN IF /\ withinSnapThreshold(check.current, check.target, scale)
               /\ ~\E k \in 1..Len(lines) :
                      /\ lines[k].orientation = check.orientation
                      /\ Distance(lines[k].position, check.target) < 1
            THEN addSnapLines(Append(lines, SnapLine(check.orientation, check.target)),
                              checks, i + 1, scale)
            ELSE addSnapLines(lines, checks, i + 1, scale)

\* calculateSnapLines over the other positioned elements in document order
RECURSIVE calculateSnapLines(_, _, _, _, _, _, _, _)
calculateSnapLines(lines, others, i, x, y, width, height, scale) ==
    IF i > Len(others) THEN lines
    ELSE calculateSnapLines(
             addSnapLines(lines, snapChecks(x, y, width, height, others[i]), 1, scale),
             others, i + 1, x, y, width, height, scale)

\* for (const line of lines): every line that an edge is near sets newX or
\* newY, so the last such line decides.
RECURSIVE snapToLines(_, _, _, _, _, _, _, _)
snapToLines(lines, i, x, y, width, height, scale, new) ==
    IF i > Len(lines) THEN new
    ELSE LET line == lines[i]
             near(a) == withinSnapThreshold(a, line.position, scale)
         IN IF line.orientation = "vertical"
            THEN snapToLines(lines, i + 1, x, y, width, height, scale,
                    IF near(x) THEN [new EXCEPT !.x = line.position, !.snapped = TRUE]
                    ELSE IF near(x + width \div 2)
                    THEN [new EXCEPT !.x = line.position - width \div 2, !.snapped = TRUE]
                    ELSE IF near(x + width)
                    THEN [new EXCEPT !.x = line.position - width, !.snapped = TRUE]
                    ELSE new)
            ELSE snapToLines(lines, i + 1, x, y, width, height, scale,
                    IF near(y) THEN [new EXCEPT !.y = line.position, !.snapped = TRUE]
                    ELSE IF near(y + height \div 2)
                    THEN [new EXCEPT !.y = line.position - height \div 2, !.snapped = TRUE]
                    ELSE IF near(y + height)
                    THEN [new EXCEPT !.y = line.position - height, !.snapped = TRUE]
                    ELSE new)

\* applySnapping(x, y, width, height, elementId) with snapping enabled; the
\* lines are those handed to setSnapLines.
applySnapping(x, y, width, height, others, scale) ==
    LET lines == calculateSnapLines(<<>>, others, 1, x, y, width, height, scale)
        new == snapToLines(lines, 1, x, y, width, height, scale,
                           [x |-> x, y |-> y, snapped |-> FALSE])
    IN [x |-> new.x, y |-> new.y, snapped |-> new.snapped, lines |-> lines]

\* A drag of an element to the offset at which its left edge is on the
\* left edge of the one other positioned element.
Widths == {2 * w : w \in 1..MaxHalfWidth} \cup {2 * SnapEdge}
Scales == {Scale(1, 10), Scale(1, 2), Scale(1, 1), Scale(2, 1), Scale(5, 1)}
Tops == {0, 2 * SnapEdge}

InitSnap ==
    /\ InitStoreEmpty
    /\ upload = NoUpload
    /\ extraction = NoExtraction
    /\ exported = NoArchive
    /\ document = NoDocument
    /\ isLoading = FALSE
    /\ error = NullError
    /\ fileUpload = NoFileUpload
    /\ exportPanel = NoExportPanel
    /\ listeners = NoListeners
    /\ drag \in {[stage |-> "dragging", x |-> SnapEdge, y |-> 0,
                  width |-> w, height |-> 2, scale |-> s,
                  others |-> <<[left |-> SnapEdge, top |-> t, width |-> ow, height |-> 2]>>,
                  left |-> 10, top |-> 0, snapLines |-> <<>>] :
                     w \in Widths, ow \in Widths, s \in Scales, t \in Tops}

\* mousemoveHandler: the pointer is where newLeft is drag.x and newTop drag.y
SnapMove ==
    /\ drag.stage = "dragging"
    /\ LET snapped == applySnapping(drag.x, drag.y, drag.width, drag.height,
                                    drag.others, drag.scale)
       IN drag' = [drag EXCEPT !.stage = "moved",
                               !.left = snapped.x,
                               !.top = snapped.y,
                               !.snapLines = snapped.lines]

NextSnap ==
    /\ UNCHANGED <<storeVars, lastOp, batchBase, panelEdit, fileVars,
                   isLoading, error, fileUpload, exportPanel, listeners>>
    /\ SnapMove

SpecSnap == InitSnap /\ [][NextSnap]_vars

\* Pointer gestures in the preview.  The page has el-1, positioned absolute
\* and 10 by 2 pixels, and el-2, positioned relative at left 40; both are
\* descendants of body and so carry the listeners.  drag.gesture records
\* where the button went down and whether a mousemove dispatched since then
\* was 3 px or more away.  A Project has just been
\* installed by setProject.  The pointer is over an
\* element, over the page background (html or body) or outside the preview.
\* canvas.scale is 1 or 1/2, which keeps the scaled deltas whole.
PointerTargets == {"el-1", "el-2", "background", "outside"}
HasListeners(target) == target \in {"el-1", "el-2"}
Draggable(target) == target = "el-1"
DragWidth == 10
DragHeight == 2
OtherElements == <<[left |-> 40, top |-> 0, width |-> 2, height |-> 2]>>

PointerXs == {0, MaxPointer}
PointerYs == {0, 2}

NoDragState ==
    [isDragging |-> FALSE, elementId |-> NoId, startX |-> 0, startY |-> 0,
     elementStartX |-> 0, elementStartY |-> 0, hasMoved |-> FALSE]

NoGesture == [on |-> "outside", x |-> 0, y |-> 0, crossed |-> FALSE]

InitLoaded ==
    /\ \E p \in InputProjects :
          /\ currentProject = p
          /\ history = <<[project |-> DeepCopy(p, "history"),
                          selectedElementId |-> NoId,
                          label |-> "Initial state"]>>
    /\ historyIndex = 0
    /\ isHistoryEnabled = TRUE
    /\ activeBatch = NoBatch
    /\ batchCommands = <<>>
    /\ selectedElementId = NoId
    /\ selectedElementData = NullData
    /\ timeout = TimerNull
    /\ pendingAction = NoAction
    /\ srcDoc = htmlContent(currentProject)
    /\ previewStyle = htmlContent(currentProject).style
    /\ lastOp = Op("setProject", FALSE, FALSE)
    /\ batchBase = NoBase
    /\ panelEdit = NoEdit
    /\ upload = NoUpload
    /\ extraction = NoExtraction
    /\ exported = NoArchive
    /\ isLoading = FALSE
    /\ error = NullError
    /\ fileUpload = NoFileUpload
    /\ exportPanel = NoExportPanel

InitDrag ==
    /\ InitLoaded
    /\ document = NoDocument
    /\ listeners = NoListeners
    /\ drag \in {[stage |-> "canvas", scale |-> sc, activeTool |-> tool,
                  dragState |-> NoDragState, left |-> 0, top |-> 0, snapLines |-> <<>>,
                  pressed |-> FALSE, gesture |-> NoGesture, event |-> "none"] :
                     sc \in {Scale(1, 1), Scale(1, 2)}, tool \in {"select", "pan"}}

\* (clientX - startX) / currentScale
scaledDelta(client, start, scale) == ((client - start) * scale.den) \div scale.num

\* Math.sqrt(deltaX * deltaX + deltaY * deltaY) < 3
belowDragThreshold(deltaX, deltaY) == deltaX * deltaX + deltaY * deltaY < 9

\* mousedownHandler of the element under the pointer: the drag state it
\* leaves (selectElement and setElementData are CanvasMouseDown).
mousedownHandler(target, x, y) ==
    IF Draggable(target)
    THEN [isDragging |-> TRUE, elementId |-> target, startX |-> x, startY |-> y,
          elementStartX |-> drag.left, elementStartY |-> drag.top, hasMoved |-> FALSE]
    ELSE drag.dragState

\* mousemoveHandler: drag state, el.style.left/top and the snap lines after it
mousemoveHandler(x, y) ==
    LET state == drag.dragState
        deltaX == scaledDelta(x, state.startX, drag.scale)
        deltaY == scaledDelta(y, state.startY, drag.scale)
    IN IF ~state.isDragging \/ state.elementId = NoId
       THEN [dragState |-> state, left |-> drag.left, top |-> drag.top,
             snapLines |-> drag.snapLines]
       ELSE IF ~state.hasMoved /\ belowDragThreshold(deltaX, deltaY)
       THEN [dragState |-> state, left |-> drag.left, top |-> drag.top,
             snapLines |-> drag.snapLines]
       ELSE LET snapped == applySnapping(state.elementStartX + deltaX,
                                         state.elementStartY + deltaY,
                                         DragWidth, DragHeight, OtherElements, drag.scale)
            IN [dragState |-> [state EXCEPT !.hasMoved = TRUE],
                left |-> snapped.x, top |-> snapped.y, snapLines |-> snapped.lines]

\* The button goes down with the pointer over target.
PointerDown(target, x, y) ==
    /\ srcDoc /= NoSrc
    /\ drag.stage = "canvas"
    /\ ~drag.pressed
    /\ IF HasListeners(target) /\ drag.activeTool = "select"
       THEN /\ CanvasMouseDown(target)
            /\ drag' = [drag EXCEPT !.dragState = mousedownHandler(target, x, y),
                                    !.pressed = TRUE,
                                    !.gesture = [on |-> target, x |-> x, y |-> y,
                                                 crossed |-> FALSE],
                                    !.event = "mousedown"]
       ELSE /\ drag' = [drag EXCEPT !.pressed = TRUE,
                                    !.gesture = [on |-> target, x |-> x, y |-> y,
                                                 crossed |-> FALSE],
                                    !.event = "none"]
            /\ UNCHANGED <<storeVars, lastOp>>

\* The pointer moves to (x, y) over target, button pressed or not.
PointerMove(target, x, y) ==
    /\ srcDoc /= NoSrc
    /\ drag.stage = "canvas"
    /\ IF HasListeners(target)
       THEN LET after == mousemoveHandler(x, y)
            IN drag' = [drag EXCEPT
                          !.dragState = after.dragState,
                          !.left = after.left,
                          !.top = after.top,
                          !.snapLines = after.snapLines,
                          !.gesture.crossed =
                              @ \/ (drag.pressed /\ ~belowDragThreshold(
                                       scaledDelta(x, drag.gesture.x, drag.scale),
                                       scaledDelta(y, drag.gesture.y, drag.scale))),
                          !.event = "mousemove"]
       ELSE drag' = [drag EXCEPT !.event = "none"]
    /\ UNCHANGED <<storeVars, lastOp>>

\* The button is released with the pointer over target: mouseupHandler
\* when the target carries it.
PointerUp(target) ==
    /\ srcDoc /= NoSrc
    /\ drag.stage = "canvas"
    /\ drag.pressed
    /\ IF HasListeners(target) /\ drag.dragState.isDragging
       THEN /\ drag' = [drag EXCEPT !.dragState = NoDragState, !.snapLines = <<>>,
                                    !.pressed = FALSE, !.gesture = NoGesture,
                                    !.event = "mouseup"]
            /\ IF drag.dragState.hasMoved /\ isHistoryEnabled /\ currentProject /= NullProject
               THEN DebouncedSaveToHistory("Move element")
               ELSE UNCHANGED <<storeVars, lastOp>>
       ELSE /\ drag' = [drag EXCEPT !.pressed = FALSE, !.gesture = NoGesture,
                                    !.event = IF HasListeners(target) THEN "mouseup" ELSE "none"]
            /\ UNCHANGED <<storeVars, lastOp>>

NextDrag ==
    /\ UNCHANGED <<batchBase, panelEdit, fileVars, isLoading, error, fileUpload,
                   exportPanel, listeners>>
    /\ \/ \E target \in PointerTargets, x \in PointerXs, y \in PointerYs :
             PointerDown(target, x, y)
       \/ \E target \in PointerTargets, x \in PointerXs, y \in PointerYs :
             PointerMove(target, x, y)
       \/ \E target \in PointerTargets : PointerUp(target)
    /\ drag'.left \in 0..MaxOffset
    /\ drag'.top \in 0..MaxOffset

SpecDrag == InitDrag /\ [][NextDrag]_vars

\* The listeners of the preview's elements.  A listener is the element, the
\* event type it is registered under and the handler function, a closure
\* named by its kind and by the run of handleIframeLoad that created it.
\* handlersRef holds what cleanupHandlers will pass to removeEventListener;
\* refLive tells whether its keys are elements of the document now shown.
PreviewElements == {"el-1", "el-2"}
EventTypes == {"mouseenter", "mouseleave", "mousedown", "mousemove", "mouseup"}
Handler(kind, run) == [kind |-> kind, run |-> run]
Listener(el, type, fn) == [el |-> el, type |-> type, fn |-> fn]

InitListeners ==
    /\ InitLoaded
    /\ document = NoDocument
    /\ drag = NoDrag
    /\ listeners \in {[stage |-> "mounted", activeTool |-> tool, runs |-> 0,
                        registered |-> {}, handlersRef |-> {}, refLive |-> TRUE,
                        hover |-> {}, calls |-> 0, afterCleanup |-> {}] :
                           tool \in {"select", "pan"}}

\* cleanupHandlers: removeEventListener(type, handlers[type]) for every entry
\* of handlersRef; the listeners that remain registered.
cleanupHandlers ==
    IF listeners.refLive
    THEN listeners.registered \ listeners.handlersRef
    ELSE listeners.registered

\* The handlersRef entry of one element for the closures of one run: the
\* mousedown key holds mouseenterHandler.
storedHandlers(el, run) ==
    {Listener(el, type, Handler(IF type = "mousedown" THEN "mouseenter" ELSE type, run)) :
        type \in EventTypes}

\* handleIframeLoad (iframe onLoad, and the timer of the re-attach effect):
\* cleanupHandlers, then addInteractionHandlers on every element.
HandleIframeLoad ==
    /\ listeners.stage = "mounted"
    /\ listeners.runs < MaxAttach
    /\ LET run == listeners.runs + 1
           remaining == cleanupHandlers
       IN listeners' = [listeners EXCEPT
             !.runs = run,
             !.afterCleanup = remaining,
             !.registered = remaining \cup
                 {Listener(el, type, Handler(type, run)) :
                     el \in PreviewElements, type \in EventTypes},
             !.handlersRef = UNION {storedHandlers(el, run) : el \in PreviewElements},
             !.refLive = TRUE]
    /\ UNCHANGED <<storeVars, lastOp>>

\* srcDoc changes: the iframe shows a new document, whose elements carry no
\* listener yet; handlersRef still names the elements of the old document.
DocumentReplaced ==
    /\ listeners.stage = "mounted"
    /\ listeners.registered /= {}
    /\ listeners' = [listeners EXCEPT !.registered = {}, !.refLive = FALSE, !.hover = {},
                                      !.calls = 0]
    /\ UNCHANGED <<storeVars, lastOp>>

\* A mousedown is dispatched on el: every mousedownHandler registered on it
\* runs (stopPropagation does not stop the other listeners of the element)
\* and, with the select tool, calls selectElement and setElementData.
DispatchMouseDown(el) ==
    /\ listeners.stage = "mounted"
    /\ LET ran == {l \in listeners.registered :
                      l.el = el /\ l.type = "mousedown" /\ l.fn.kind = "mousedown"}
       IN /\ listeners' = [listeners EXCEPT
                !.calls = IF listeners.activeTool = "select" THEN Cardinality(ran) ELSE 0]
          /\ IF ran /= {} /\ listeners.activeTool = "select"
             THEN CanvasMouseDown(el)
             ELSE UNCHANGED <<storeVars, lastOp>>

\* mouseenterHandler / mouseleaveHandler
DispatchMouseEnter(el) ==
    /\ listeners.stage = "mounted"
    /\ \E l \in listeners.registered : l.el = el /\ l.type = "mouseenter"
    /\ listeners.activeTool = "select"
    /\ el /= selectedElementId
    /\ listeners' = [listeners EXCEPT !.hover = @ \cup {el}]
    /\ UNCHANGED <<storeVars, lastOp>>

DispatchMouseLeave(el) ==
    /\ listeners.stage = "mounted"
    /\ \E l \in listeners.registered : l.el = el /\ l.type = "mouseleave"
    /\ listeners' = [listeners EXCEPT !.hover = @ \ {el}]
    /\ UNCHANGED <<storeVars, lastOp>>

NextListeners ==
    /\ UNCHANGED <<batchBase, panelEdit, fileVars, isLoading, error, fileUpload,
                   exportPanel, drag>>
    /\ \/ HandleIframeLoad
       \/ DocumentReplaced
       \/ \E el \in PreviewElements : DispatchMouseDown(el)
       \/ \E el \in PreviewElements : DispatchMouseEnter(el)
       \/ \E el \in PreviewElements : DispatchMouseLeave(el)

SpecListeners == InitListeners /\ [][NextListeners]_vars

\* Layer reordering on Projects of a root page, one more page and at most one
\* CSS file.  Pages carry their elements in document order, with identifiers
\* that are unique over the Project.
AboutHtml == Path(<<>>, "about", "html")

LayerRootPages ==
    { <<Doctype, HeadClose, El(ElId(0)), El(ElId(1)), El(ElId(2))>>,
      <<HeadClose, El(ElId(0)), El(ElId(1))>>,
      <<Link(StyleCss, "\""), HeadClose, El(ElId(0)), El(ElId(1)), El(ElId(2))>> }

LayerOtherPages ==
    { <<Doctype, HeadClose, El(ElId(3)), El(ElId(4))>>,
      <<HeadClose, El(ElId(3))>> }

LayerCss == { q \in CssLists : \A i \in 1..Len(q) : q[i].path = StyleCss }

LayerProjects ==
    { [stage |-> "layers",
       files |-> IF rootFirst
                 THEN <<[path |-> IndexHtml, type |-> "html", content |-> root],
                        [path |-> AboutHtml, type |-> "html", content |-> other]>> \o css
                 ELSE <<[path |-> AboutHtml, type |-> "html", content |-> other],
                        [path |-> IndexHtml, type |-> "html", content |-> root]>> \o css,
       rootHtmlPath |-> IndexHtml,
       reorders |-> 0] :
          root \in LayerRootPages, other \in LayerOtherPages, css \in LayerCss,
          rootFirst \in BOOLEAN }

InitLayers ==
    /\ InitLoaded
    /\ drag = NoDrag
    /\ listeners = NoListeners
    /\ document \in LayerProjects

\* The document the preview iframe shows (Canvas htmlContent).
liveDocument == buildHtmlDocument(document.files, document.rootHtmlPath)

\* Identifiers of the elements of a document
visualIds(html) == { html[i].vid : i \in {k \in 1..Len(html) : html[k].t = "element"} }

\* Position of the element with identifier id (querySelector)
RECURSIVE querySelector(_, _, _)
querySelector(html, id, i) ==
    IF i > Len(html) THEN 0
    ELSE IF html[i].t = "element" /\ html[i].vid = id THEN i
    ELSE querySelector(html, id, i + 1)

\* insertBefore(draggedEl, targetEl), insertBefore(draggedEl,
\* targetEl.nextSibling) and targetEl.appendChild(draggedEl) on the document
\* order of the elements: the dragged element leaves its place and comes
\* directly before the target, or directly after it ('after' and 'inside').
moveElement(html, draggedId, targetId, position) ==
    LET d == querySelector(html, draggedId, 1)
        without == SubSeq(html, 1, d - 1) \o SubSeq(html, d + 1, Len(html))
        t == querySelector(without, targetId, 1)
        at == IF position = "before" THEN t - 1 ELSE t
    IN SubSeq(without, 1, at) \o <<html[d]>> \o SubSeq(without, at + 1, Len(without))

\* doc.documentElement.outerHTML: the html element, without the doctype.
outerHTML(html) == SelectSeq(html, LAMBDA tok : tok /= Doctype)

\* LayersPanel.handleLayerReorder: the move in the live document, then
\* updateProject writing the live document into the files of type html.
HandleLayerReorder(draggedId, targetId, position) ==
    /\ document.stage = "layers"
    /\ document.reorders < MaxReorders
    /\ {draggedId, targetId} \subseteq visualIds(liveDocument)
    /\ draggedId /= targetId
    /\ LET content == outerHTML(moveElement(liveDocument, draggedId, targetId, position))
       IN document' = [document EXCEPT
             !.reorders = @ + 1,
             !.files = [i \in 1..Len(document.files) |->
                           IF document.files[i].type = "html"
                           THEN [document.files[i] EXCEPT !.content = content]
                           ELSE document.files[i]]]

LayerIds == {ElId(n) : n \in 0..4}

NextLayers ==
    /\ UNCHANGED uiVars
    /\ UNCHANGED <<storeVars, srcDoc, previewStyle, lastOp, batchBase, panelEdit,
                   upload, extraction, exported>>
    /\ \E draggedId \in LayerIds, targetId \in LayerIds,
          position \in {"before", "after", "inside"} :
             HandleLayerReorder(draggedId, targetId, position)

SpecLayers == InitLayers /\ [][NextLayers]_vars

\* The upload screen (FileUpload with the store's isLoading and error, shown
\* by App while no Project is loaded), the error toast and the export panel.
\* A file is its extension, its size and whether processZipFile succeeds on it.
UploadFiles == [ext : {"zip", "txt"}, size : {0, 1}, success : BOOLEAN]

FileUploadShown == currentProject = NullProject

\* handleFile(file): the part before `await processZipFile`.
handleFile(file) ==
    LET validation == validateFile(file)
    IN IF ~validation.valid
       THEN /\ error' = validation.error
            /\ isLoading' = FALSE
            /\ fileUpload' = [fileUpload EXCEPT !.uploadStatus = "error",
                                                !.recentFile = file]
       ELSE /\ \E id \in 1..MaxRuns :
                  /\ \A run \in fileUpload.runs : run.id /= id
                  /\ \A other \in 1..(id - 1) : \E run \in fileUpload.runs : run.id = other
                  /\ fileUpload' = [uploadStatus |-> "uploading",
                                    recentFile |-> file,
                                    runs |-> fileUpload.runs \cup {[id |-> id, file |-> file]}]
            /\ error' = NullError
            /\ isLoading' = TRUE

\* handleDrop: the first dropped file that ends in '.zip', else an error
HandleDrop(file) ==
    /\ FileUploadShown
    /\ IF file.ext = "zip"
       THEN handleFile(file)
       ELSE /\ error' = "Please drop a ZIP file (.zip extension required)"
            /\ isLoading' = FALSE
            /\ fileUpload' = [fileUpload EXCEPT !.uploadStatus = "error"]
    /\ UNCHANGED <<storeVars, lastOp>>

\* handleInputChange: the file picker
HandleInputChange(file) ==
    /\ FileUploadShown
    /\ handleFile(file)
    /\ UNCHANGED <<storeVars, lastOp>>

\* handleRetry: the button shown while uploadStatus is 'error'
HandleRetry ==
    /\ FileUploadShown
    /\ fileUpload.uploadStatus = "error"
    /\ IF fileUpload.recentFile /= NoFile
       THEN handleFile(fileUpload.recentFile)
       ELSE /\ fileUpload' = [fileUpload EXCEPT !.uploadStatus = "idle"]
            /\ error' = NullError
            /\ isLoading' = FALSE
    /\ UNCHANGED <<storeVars, lastOp>>

\* handleFile after `await processZipFile`: setProject or setError, then
\* setLoading(false).  The component's own state is gone once it is unmounted.
RunEnds(run) ==
    /\ run \in fileUpload.runs
    /\ isLoading' = FALSE
    /\ IF run.file.success
       THEN /\ \E p \in InputProjects : SetProject(p)
            /\ error' = NullError
            /\ fileUpload' = [fileUpload EXCEPT
                                 !.runs = @ \ {run},
                                 !.uploadStatus = IF FileUploadShown THEN "success" ELSE @]
       ELSE /\ error' = "Failed to process ZIP file"
            /\ fileUpload' = [fileUpload EXCEPT
                                 !.runs = @ \ {run},
                                 !.uploadStatus = IF FileUploadShown THEN "error" ELSE @]
            /\ UNCHANGED <<storeVars, lastOp>>

\* setTimeout(() => setUploadStatus('idle'), 1000) after a success
UploadStatusReset ==
    /\ fileUpload.uploadStatus = "success"
    /\ fileUpload' = [fileUpload EXCEPT !.uploadStatus = "idle"]
    /\ UNCHANGED <<storeVars, lastOp, isLoading, error>>

\* ErrorToast: the close button, onClose = clearError
ErrorToastClose ==
    /\ error /= NullError
    /\ error' = NullError
    /\ UNCHANGED <<storeVars, lastOp, isLoading, fileUpload>>

\* ExportPanel.handleExport when createZipFromProject throws
ExportFails ==
    /\ currentProject /= NullProject
    /\ exportPanel' = [status |-> "error", errorMessage |-> "Export failed. Please try again."]

\* setTimeout(() => { setStatus('idle'); setErrorMessage(null) }, 5000)
ExportErrorReset ==
    /\ exportPanel.status = "error"
    /\ exportPanel' = NoExportPanel

NextFileUpload ==
    /\ UNCHANGED <<batchBase, panelEdit, fileVars, drag, listeners>>
    /\ \/ /\ UNCHANGED exportPanel
          /\ \/ \E file \in UploadFiles : HandleDrop(file)
             \/ \E file \in UploadFiles : HandleInputChange(file)
             \/ HandleRetry
             \/ \E run \in fileUpload.runs : RunEnds(run)
             \/ UploadStatusReset
             \/ ErrorToastClose
       \/ /\ UNCHANGED <<storeVars, lastOp, isLoading, error, fileUpload>>
          /\ \/ ExportFails
             \/ ExportErrorReset

SpecFileUpload == Init /\ [][NextFileUpload]_vars

\* The timers fire and an awaited processZipFile settles; the user owes
\* nothing.
FairFileUpload ==
    /\ SpecFileUpload
    /\ WF_vars(UploadStatusReset /\ UNCHANGED <<batchBase, panelEdit, fileVars, drag,
                                                  listeners, exportPanel>>)
    /\ WF_vars(ExportErrorReset /\ UNCHANGED <<batchBase, panelEdit, fileVars, drag, listeners,
                                                 storeVars, lastOp, isLoading, error, fileUpload>>)
    /\ WF_vars(\E run \in fileUpload.runs :
                  RunEnds(run) /\ UNCHANGED <<batchBase, panelEdit, fileVars, drag,
                                              listeners, exportPanel>>)

----------------------------------------------------------------------------
(* Properties *)

Last(h) == h[Len(h)]

\* The step appended to the history, cut after the cursor, a snapshot of the
\* live Project as it was before the step, labelled `label`.
AppendedSnapshot(label) ==
    LET n == Len(history')
    IN /\ n = Min(historyIndex + 2, HistoryLimit)
       /\ Value(Last(history').project) = Value(currentProject)
       /\ Last(history').selectedElementId = selectedElementId
       /\ Last(history').label = EntryLabel(label)
       /\ \A j \in 1..(n - 1) : history'[j] = history[j + (historyIndex + 2 - n)]

\* A step in which saveToHistory ran past its guard and was the last thing
\* to touch the history.
CommitStep ==
    \/ SaveToHistory(Undefined)
    \/ /\ TimerFires \/ FlushHistory
       /\ Pending /\ isHistoryEnabled /\ currentProject /= NullProject

CommitLabel == IF Pending /\ lastOp'.op /= "saveToHistory" THEN pendingAction[1] ELSE Undefined

MutationStep ==
    \/ \E c \in Contents : UpdateProject(c)
    \/ \E c \in Contents : UpdateElement("el-1", c)
    \/ \E page \in Pages : SetCurrentPage(page)

\* C1: no HistoryEntry shares object structure with the live Project (every
\* entry holds a structure of its own, the live Project one that no entry
\* holds), and a mutation of the live Project leaves every entry as it was,
\* a layer reorder every entry up to the cursor.
C1_NoSharedStructure ==
    /\ [](/\ currentProject.ref \in {"live", "<null>"}
          /\ \A i \in DOMAIN history : history[i].project.ref = "history")
    /\ [][MutationStep => history' = history]_vars
    /\ [][LayerReorder => \A i \in 1..(historyIndex + 1) : history'[i] = history[i]]_vars

\* C1 witness: the live Project was mutated after commits and differs from
\* the entry under the cursor, which is one of several.
C1_Witness ==
    /\ Len(history) >= 2
    /\ lastOp.op \in {"updateProject", "updateElement", "setCurrentPage"}
    /\ Value(currentProject) /= Value(Current(history, historyIndex).project)

\* C2: the history is empty with the cursor at -1, or non-empty with the
\* cursor on one of its entries.
C2_CursorInRange ==
    \/ history = <<>> /\ historyIndex = -1
    \/ Len(history) > 0 /\ 0 <= historyIndex /\ historyIndex <= Len(history) - 1

\* C2 witness: undo has moved the cursor to the first of several entries.
C2_Witness ==
    /\ lastOp.op = "undo"
    /\ Len(history) >= 2
    /\ historyIndex = 0

\* C3: a commit made with the cursor at i yields the entries up to i followed
\* by the new snapshot (less the oldest entry when the limit is exceeded),
\* with the cursor on the new tail and canRedo() false.
C3_Linear ==
    [][CommitStep =>
          /\ AppendedSnapshot(CommitLabel)
          /\ historyIndex' = Len(history') - 1
          /\ ~canRedo']_vars

\* C3 witness: a commit has just replaced a redo branch.
C3_Witness ==
    /\ lastOp.op = "saveToHistory"
    /\ lastOp.cut
    /\ historyIndex = Len(history) - 1
    /\ Len(history) >= 2

\* C4: the history never holds more than 50 entries; a commit made at the
\* tail of n entries leaves min(n + 1, 50) entries, without the oldest one
\* when n = 50, and the cursor on the new tail; undo never changes an entry
\* and stops at the first retained one.
C4_Bounded ==
    /\ [](Len(history) <= HistoryLimit)
    /\ [][CommitStep =>
             /\ Len(history') = Min(historyIndex + 2, HistoryLimit)
             /\ historyIndex' = Len(history') - 1
             /\ historyIndex + 2 > HistoryLimit =>
                   /\ Len(history') = HistoryLimit
                   /\ \A j \in 1..(HistoryLimit - 1) : history'[j] = history[j + 1]
                   /\ Value(Last(history').project) = Value(currentProject)]_vars
    /\ [][Undo /\ ~Pending =>
             /\ history' = history
             /\ historyIndex' = Max(historyIndex - 1, Min(historyIndex, 0))
             /\ historyIndex = 0 => currentProject' = currentProject]_vars

\* C4 witness: the entry of the first state has been dropped from a full
\* history and undo has come to rest on the oldest retained entry.
C4_Witness ==
    /\ lastOp.op = "undo"
    /\ Len(history) = HistoryLimit
    /\ historyIndex = 0
    /\ history[1].label = "Edit"
    /\ Value(currentProject) = Value(history[1].project)

\* C5 (as claimed): undo() with a debounced commit pending appends that
\* commit, then moves the cursor back one entry, so that the live Project is
\* the state before the pending edit, redo is possible and nothing is left
\* pending.
C5_FlushBeforeUndo ==
    [][Undo /\ Pending =>
          /\ AppendedSnapshot(pendingAction[1])
          /\ historyIndex' = Len(history') - 2
          /\ Value(currentProject') = Value(Current(history', historyIndex').project)
          /\ canRedo'
          /\ ~Pending'
          /\ timeout' /= TimerArmed]_vars

\* C6 (as claimed): every undo or redo request made by key or button while a
\* debounced commit is pending performs that commit, at every cursor position
\* of a non-empty history.
C6_RequestsFlush ==
    [][(KeyUndo \/ KeyRedo \/ ClickUndo \/ ClickRedo) /\ Pending /\ historyIndex >= 0 =>
          /\ AppendedSnapshot(pendingAction[1])
          /\ ~Pending']_vars

\* What C7 says of every step apart from the entry a firing timer or a flush
\* creates: scheduling creates no entry and leaves exactly one commit
\* pending; a timer, flush, undo or redo without a pending commit creates
\* no entry; a direct saveToHistory creates its own entry only; undo and
\* redo create at most the one entry of the pending commit; and each of these
\* leaves nothing pending, so the pending commit is performed at most once.
DebounceFrame ==
    /\ DebouncedSaveToHistory("Move element") =>
          /\ history' = history
          /\ historyIndex' = historyIndex
          /\ pendingAction' = <<"Move element">>
          /\ timeout' = TimerArmed
    /\ (TimerFires \/ FlushHistory \/ Undo \/ Redo) /\ ~Pending => history' = history
    /\ SaveToHistory(Undefined) => AppendedSnapshot(Undefined)
    /\ (Undo \/ Redo) /\ Pending =>
          IF isHistoryEnabled
          THEN AppendedSnapshot(pendingAction[1])
          ELSE history' = history
    /\ SaveToHistory(Undefined) \/ Undo \/ Redo =>
          /\ ~Pending'
          /\ timeout' /= TimerArmed

\* The entry C7 describes: a snapshot of the live Project as it is when the
\* timer fires or the flush runs, with the cursor on it and nothing pending.
OneEntryNow ==
    /\ AppendedSnapshot(pendingAction[1])
    /\ historyIndex' = Len(history') - 1
    /\ ~Pending'
    /\ timeout' /= TimerArmed

\* C7 (as claimed): however often a debounced commit was scheduled, the timer
\* firing or a flush creates exactly one entry for it.
C7_Coalescing ==
    /\ [](Pending <=> timeout = TimerArmed)
    /\ [][DebounceFrame]_vars
    /\ [][(TimerFires \/ FlushHistory) /\ Pending => OneEntryNow]_vars

\* C7 (amended): the timer firing or a flush creates exactly one entry for the
\* pending commit when history is enabled at that moment, and otherwise
\* drops the pending commit without an entry.
C7_CoalescingWhileEnabled ==
    /\ [](Pending <=> timeout = TimerArmed)
    /\ [][DebounceFrame]_vars
    /\ [][(TimerFires \/ FlushHistory) /\ Pending =>
             IF isHistoryEnabled
             THEN OneEntryNow
             ELSE history' = history /\ ~Pending' /\ timeout' /= TimerArmed]_vars

\* C7 witness: the timer has fired on a pending commit and the new tail is a
\* snapshot of the live Project, which differs from the entry before it.
C7_Witness ==
    /\ lastOp.op = "timer"
    /\ lastOp.pending
    /\ Len(history) >= 2
    /\ historyIndex = Len(history) - 1
    /\ Last(history).label = "Move element"
    /\ Value(Last(history).project) = Value(currentProject)
    /\ Value(history[Len(history) - 1].project) /= Value(currentProject)
    /\ ~Pending

\* C8 (as claimed): endBatch() on an open batch appends exactly one entry
\* labelled with the batch name when the Project differs from the one at
\* startBatch, and none otherwise.
C8_EndBatchCommits ==
    [][EndBatch /\ activeBatch /= NoBatch /\ batchBase.project /= NullProject =>
          IF Value(currentProject) /= Value(batchBase.project)
          THEN AppendedSnapshot(activeBatch) /\ historyIndex' = Len(history') - 1
          ELSE history' = history]_vars

\* C9 (as claimed): cancelBatch() on an open batch closes it and makes the
\* live Project a copy of the entry under the cursor, which is the Project
\* as it was at startBatch when the batch was started on a committed state.
C9_CancelRestores ==
    [][CancelBatch /\ activeBatch /= NoBatch /\ historyIndex >= 0 =>
          /\ activeBatch' = NoBatch
          /\ Value(currentProject') = Value(Current(history, historyIndex).project)
          /\ batchBase.clean => Value(currentProject') = Value(batchBase.project)]_vars

\* C10 (as claimed): in a session begun by an upload, after a style change
\* made in the properties panel was committed on blur, undo() shows the
\* element with its previous value and canRedo() is true.
C10_UndoRevertsPreview ==
    panelEdit.phase = "undone" /\ history[1].label = "Initial state" =>
        previewStyle = panelEdit.prev /\ canRedo

\* C11 (as claimed): the HTML that an export writes for the edited page
\* agrees with the live preview document on the edited element, whatever
\* panel changes, drags and nudges came before the export.
C11_ExportHasEdits ==
    lastOp.op = "export" =>
        /\ Len(exported) = 1
        /\ exported[1].content = <<Text(previewStyle)>>

\* C12 (as claimed): the export of an uploaded, unedited Project whose
\* entries were all read and whose root page is index.html holds exactly one entry per uploaded file, at the
\* same path, and every file that is not HTML has the content it was
\* uploaded with.
C12_ExportPreservesFiles ==
    /\ lastOp.op = "export"
    /\ upload.stage = "success"
    /\ upload.failed = {}
    /\ upload.project.rootHtmlPath = Path(<<>>, "index", "html")
    => LET entries == upload.file.archive.entries
        IN /\ Len(exported) = Len(entries)
           /\ \A i \in 1..Len(entries) :
                 \E j \in 1..Len(exported) :
                    /\ exported[j].path = entries[i].path
                    /\ getFileType(entries[i].path) /= "html" =>
                          exported[j].content = entries[i].content

\* True when no CSS file holds text that closes a style block or a head, or
\* a replacement pattern, and the root page has no marker-tagged block.
PlainDocument(doc) ==
    /\ \A i \in 1..Len(doc.files) :
          doc.files[i].type = "css" =>
             \A k \in 1..Len(doc.files[i].content) :
                doc.files[i].content[k] \notin {StyleClose, HeadClose, DollarAmp}
    /\ \A k \in 1..Len(rootContent(doc)) : rootContent(doc)[k] /= InjectedOpen

NoLink(html) == \A k \in 1..Len(html) : html[k].t /= "<link>"

RoundTrip(doc) ==
    /\ Len(exported) = Len(doc.files)
    /\ \A i \in 1..Len(doc.files) :
          /\ exported[i].path = doc.files[i].path
          /\ exported[i].content = doc.files[i].content

occurrences(html, tok) == Cardinality({k \in 1..Len(html) : html[k] = tok})

\* A <link> of html that names the CSS file by its file name.
linkLeft(html, cssFile) ==
    \E k \in 1..Len(html) :
        /\ html[k].t = "<link>"
        /\ hrefEndsWith(html[k].href, basename(cssFile.path))

\* C14 (as claimed): in the assembled document of a root page with a head,
\* the text of every CSS file stands exactly once and no <link> to the file
\* is left, however the page links the file.
C14_InlinedExactlyOnce ==
    /\ document.stage = "assembled"
    /\ PlainDocument(document)
    /\ occurrences(rootContent(document), HeadClose) = 1
    => \A i \in 2..Len(document.files) :
          /\ occurrences(document.html, Head(document.files[i].content)) = 1
          /\ ~linkLeft(document.html, document.files[i])

\* The elements of the HTML files: (file, position) pairs.
htmlElements(files) ==
    UNION { { <<i, k>> : k \in {j \in 1..Len(files[i].content) :
                                    files[i].content[j].t = "element"} } :
            i \in {h \in 1..Len(files) : files[h].type = "html"} }

\* C15 (as claimed): in the Project that an upload installs, every element of
\* every HTML file carries an identifier and no two elements share one.
C15_UniqueIdentifiers ==
    upload.stage = "success" =>
        LET files == upload.project.files
        IN \A e1, e2 \in htmlElements(files) :
              /\ files[e1[1]].content[e1[2]].vid /= NoVid
              /\ e1 /= e2 =>
                    files[e1[1]].content[e1[2]].vid /= files[e2[1]].content[e2[2]].vid

\* C16: applying addVisualIdsToHtml to the output of a previous application,
\* with any start counter, gives the same elements with the same identifiers.
C16_InjectionIdempotent ==
    document.stage = "twice" => document.second = document.first

C16_Witness ==
    /\ document.stage = "twice"
    /\ document.counters[1] /= document.counters[2]
    /\ \E i, j \in 1..Len(document.html) :
          /\ document.html[i] = El(NoVid)
          /\ document.html[j] = El(ElId(1))
    /\ \E i \in 1..Len(document.first) : document.first[i] /= document.html[i]
    /\ document.second = document.first

\* The paths of the archive's HTML entries, and the claimed precedence.
isIndexHtml(path) == path.stem = "index" /\ path.ext = "html"

RootByPrecedence(entries, rootHtmlPath) ==
    LET html == {i \in 1..Len(entries) : getFileType(entries[i].path) = "html"}
    IN IF \E i \in html : isIndexHtml(entries[i].path)
       THEN isIndexHtml(rootHtmlPath)
       ELSE IF \E i \in html : entries[i].path.dir = <<>>
       THEN rootHtmlPath.dir = <<>>
       ELSE \E i \in html :
               /\ rootHtmlPath = entries[i].path
               /\ \A j \in html : i <= j

\* C17 (as claimed): the root page of an uploaded Project is an index.html
\* if the archive has one, else a top-level HTML file if it has one, else
\* the first HTML file in entry order (archives without __MACOSX entries,
\* every entry read).
C17_RootPrecedence ==
    /\ upload.stage = "success"
    /\ upload.failed = {}
    /\ \A i \in 1..Len(upload.file.archive.entries) :
          ~includes(upload.file.archive.entries[i].path, "__MACOSX")
    => RootByPrecedence(upload.file.archive.entries, upload.project.rootHtmlPath)

\* The uploads that the claim names as invalid.
TooManyEntries(file) == entryCount(file.archive) > MAX_FILES_COUNT

InvalidUpload(file) ==
    \/ file.size = 0
    \/ file.size > MAX_FILE_SIZE
    \/ file.ext /= "zip"
    \/ TooManyEntries(file)

\* C18: handing over an upload that is empty, larger than 50 MB, without the
\* .zip extension or of more than 500 entries ends in a failure with a
\* message (the entry-count failure names the maximum), with no entry read
\* and the store's Project untouched; a .zip upload of exactly 50 MB with
\* exactly 500 entries, none of a forbidden kind, goes on to the reads; and
\* no reads are under way in a failed upload.
C18_ValidationFailsFast ==
    /\ [][upload.stage = "idle" /\ upload' /= upload =>
            LET file == upload'.file
            IN /\ InvalidUpload(file) =>
                     /\ upload'.stage = "error"
                     /\ upload'.error.message /= ""
                     /\ extraction' = NoExtraction
                     /\ currentProject' = currentProject
                     /\ UNCHANGED storeVars
               /\ file.size \in 1..MAX_FILE_SIZE /\ file.ext = "zip" /\ TooManyEntries(file) =>
                     upload'.error.max = MAX_FILES_COUNT
               /\ /\ file.size = MAX_FILE_SIZE
                  /\ file.ext = "zip"
                  /\ entryCount(file.archive) = MAX_FILES_COUNT
                  /\ dangerousFiles(file.archive) = {}
                  => /\ upload'.stage = "uploading"
                     /\ extraction'.stage = "extracting"
                     /\ extraction'.files = <<>>]_vars
    /\ [](upload.stage = "error" => extraction = NoExtraction)

C18_Witness ==
    /\ upload.stage = "error"
    /\ upload.file.size = MAX_FILE_SIZE
    /\ upload.file.ext = "zip"
    /\ entryCount(upload.file.archive) = MAX_FILES_COUNT + 1
    /\ upload.error.message = "ZIP contains too many files"
    /\ upload.error.max = MAX_FILES_COUNT
    /\ extraction = NoExtraction

\* An entry of a forbidden kind, as the claim names them.
Forbidden(path) ==
    \/ toLowerCase(path.ext) \in {"exe", "dll", "bat", "sh"}
    \/ \E i \in 1..Len(path.dir) : path.dir[i] = "__MACOSX"

\* C19 (as claimed): no entry is read, and no Project results, from an
\* archive that holds an entry of a forbidden kind.
C19_DenylistRejects ==
    upload.stage \in {"uploading", "success"} =>
        \A i \in 1..Len(upload.file.archive.entries) :
            ~Forbidden(upload.file.archive.entries[i].path)

\* C20: while the entries of an upload are being read, a step of an entry
\* task (a read or a failed read) leaves the upload running; the reads end
\* only when no task is pending; the result then is a success exactly when
\* an HTML entry was read, and the Project holds the entries that were read
\* and none of the failed ones.
C20_EntryFailureTolerated ==
    [][extraction.stage = "extracting" /\ extraction' /= extraction =>
          LET entries == upload.file.archive.entries
              failed == extraction.failed
              read == (1..Len(entries)) \ failed
          IN /\ extraction'.stage = "extracting" =>
                   /\ upload' = upload
                   /\ extraction'.pending \subseteq extraction.pending
             /\ extraction'.stage = "idle" =>
                   /\ extraction.pending = {}
                   /\ IF \E i \in read : getFileType(entries[i].path) = "html"
                      THEN /\ upload'.stage = "success"
                           /\ Len(upload'.project.files) = Cardinality(read)
                           /\ \A i \in read :
                                 \E k \in 1..Len(upload'.project.files) :
                                    upload'.project.files[k].path = entries[i].path
                           /\ \A i \in failed :
                                 \A k \in 1..Len(upload'.project.files) :
                                    upload'.project.files[k].path /= entries[i].path
                      ELSE /\ upload'.stage = "error"
                           /\ upload'.error.message = "No HTML file found in the ZIP archive"]_vars

C20_Witness ==
    /\ upload.stage = "success"
    /\ upload.failed /= {}
    /\ Len(upload.project.files) >= 1
    /\ \A i \in upload.failed :
          \A k \in 1..Len(upload.project.files) :
             upload.project.files[k].path /= upload.file.archive.entries[i].path

\* C21 (as claimed): at most one handleFile call is awaiting processZipFile.
C21_OneRunInFlight == Cardinality(fileUpload.runs) <= 1

\* C22 (as claimed): an error shown by the toast or by the export panel is
\* cleared in the end, whatever the user does or leaves undone.
C22_ErrorsClear ==
    /\ (error /= NullError) ~> (error = NullError)
    /\ (exportPanel.errorMessage /= NullError) ~> (exportPanel.errorMessage = NullError)

\* C25 (as claimed): a drag that places the element's left edge exactly on
\* the other element's left edge ends with the element's left offset on
\* that edge, whatever the two widths and the scale are.
C25_SnapsToAlignedEdge ==
    drag.stage = "moved" /\ drag.x = drag.others[1].left => drag.left = drag.others[1].left

C29_DragEnds ==
    drag.stage = "canvas" /\ ~drag.pressed => ~drag.dragState.isDragging

\* C24 (as claimed): every element carries at most one listener per event
\* type, nothing registered by an earlier run is left after cleanupHandlers,
\* and a pointer-down calls selectElement at most once.
C24_ListenerHygiene ==
    listeners.stage = "mounted" =>
        /\ \A el \in PreviewElements, type \in EventTypes :
               Cardinality({l \in listeners.registered : l.el = el /\ l.type = type}) <= 1
        /\ listeners.afterCleanup = {}
        /\ listeners.calls <= 1

\* C26 (as claimed): a layer reorder leaves the content of every file other
\* than the root page as it was, and no two elements of the Project's HTML
\* files share an identifier after it.
C26_ReorderChangesRootOnly ==
    [][document.stage = "layers" /\ document' /= document
       => /\ \A i \in 1..Len(document.files) :
                document.files[i].path /= document.rootHtmlPath
                   => document'.files[i] = document.files[i]
          /\ \A e1, e2 \in htmlElements(document'.files) :
                e1 /= e2 => document'.files[e1[1]].content[e1[2]].vid
                               /= document'.files[e2[1]].content[e2[2]].vid]_vars

\* C27 (as claimed): while a Project is loaded the history is non-empty and
\* the cursor is at an entry; right after the Project was loaded (by
\* setProject or by the restore on page load) that entry records it.
C27_LoadedProjectHasHistory ==
    currentProject /= NullProject =>
        /\ history /= <<>>
        /\ historyIndex >= 0
        /\ lastOp.op \in {"init", "setProject"} =>
              Value(Current(history, historyIndex).project) = Value(currentProject)

\* C28 (as claimed): selectedElementData is null or describes the element
\* named by selectedElementId.
C28_SelectionConsistent ==
    selectedElementData /= NullData => selectedElementData.id = selectedElementId

\* The files and the root page that the per-entry tasks leave when they end
\* in the order of the archive's entries, entries in failed being skipped.
RECURSIVE inEntryOrder(_, _, _, _)
inEntryOrder(entries, failed, i, acc) ==
    IF i > Len(entries) THEN acc
    ELSE IF i \in failed THEN inEntryOrder(entries, failed, i + 1, acc)
    ELSE LET type == getFileType(entries[i].path)
         IN inEntryOrder(entries, failed, i + 1,
               [files |-> Append(acc.files, [path |-> entries[i].path,
                                             content |-> readContent(entries[i]),
                                             type |-> type]),
                rootHtmlPath |->
                    IF type = "html" /\ acc.rootHtmlPath = NoPath
                          /\ rootCandidate(entries[i].path)
                    THEN entries[i].path
                    ELSE acc.rootHtmlPath])

\* C30 (as claimed): the Project of a successful upload is the one that the
\* archive gives when its entries' tasks end in entry order, whatever the
\* order they ended in: same root page, same file order, same identifiers.
C30_DeterministicProcessing ==
    upload.stage = "success" =>
        LET r == inEntryOrder(upload.file.archive.entries, upload.failed, 1,
                              [files |-> <<>>, rootHtmlPath |-> NoPath])
        IN /\ upload.project.rootHtmlPath =
                 (IF r.rootHtmlPath = NoPath THEN firstHtml(r.files) ELSE r.rootHtmlPath)
           /\ upload.project.files = processedFiles(r.files, 1, 0)
====
